---------------------------- MODULE Spec2Model ----------------------------
(***************************************************************************)
(* Model of the drug-approval document pipeline of                         *)
(* src/src/fetch_all_drug_approval_data.py: parse_xml_doc and the recovery *)
(* tiers behind it (handle_complex_xml_parsing,                            *)
(* extract_text_from_broken_xml, extract_text_from_parsed_doc).            *)
(*                                                                         *)
(* A Python string is modelled as a sequence of tokens.  A token is one    *)
(* markup unit (a tag, a CDATA marker) or one text unit (a letter, a       *)
(* blank, an ampersand, the tail of an entity reference).  Every regular   *)
(* expression and the XML parser are modelled by what they do to such a    *)
(* sequence.                                                               *)
(***************************************************************************)
EXTENDS Integers, Sequences, FiniteSets

(***************************************************************************)
(* Bounds of the model.                                                    *)
(***************************************************************************)
\* Elements (SECTION, ARTICLE, PARAGRAPH) of a generated well-formed document.
MaxNodes == 5
\* Tokens of the free paragraph body of a generated single-paragraph document.
MaxBody == 3
\* Tokens of a generated free-form string.
MaxRaw == 2
\* Tokens of a generated string of sub and sup tags.
MaxInline == 4
\* Tokens deleted from a well-formed document to damage it.
MaxDrop == 1
\* The most items filter_data_async is given, and the largest batch size.
MaxItems == 4
MaxBatch == 2
\* The most records of a list given to validate_and_preprocess_data.
MaxRecords == 3
\* The most approvals and the most pills given to merge_drug_data.
MaxApprovals == 2
MaxPills == 2
\* The items of a page of the source (page_size, 100 in the program), and
\* the most items the source has.
PageSize == 2
MaxFeed == 4

(***************************************************************************)
(* The token alphabet.                                                     *)
(***************************************************************************)
CDO == "<![CDATA["
CDC == "]]>"
AMP == "&"
SP  == " "
TAB == "\t"
NL  == "\n"
CR  == "\r"

RootTags    == {"<DOC>", "<DOC title=\"T\">", "<DOC title=\"T\" type=\"EE\">"}
SectionTags == {"<SECTION>", "<SECTION title=\"S\">"}
ArticleTags == {"<ARTICLE>", "<ARTICLE title=\"A\">", "<ARTICLE title=\"B\">"}
OpenTags    == RootTags \cup SectionTags \cup ArticleTags
                 \cup {"<PARAGRAPH>", "<sub>", "<sup>", "<br>"}
CloseTags   == {"</DOC>", "</SECTION>", "</ARTICLE>", "</PARAGRAPH>",
                "</sub>", "</sup>"}
EmptyTags   == {"<br/>"}
TagTokens   == OpenTags \cup CloseTags \cup EmptyTags
EntityTails == {"amp;"}
Letters     == {"x", "y"}
WhiteSpace  == {SP, TAB, NL, CR}
\* An eleven-letter word ("abcdefghijk") and a sentence-ending full stop.
WORD == "abcdefghijk"
DOT  == "."

\* len(t): the number of characters a token stands for.
CharLen(t) ==
  CASE t \in Letters \cup WhiteSpace \cup {AMP, DOT} -> 1
    [] t = WORD -> 11
    [] t = "amp;" -> 4
    [] t = CDO -> 9
    [] t = CDC -> 3
    [] t \in {"<br>"} -> 4
    [] t \in {"<sub>", "<sup>", "<DOC>", "<br/>"} -> 5
    [] t \in {"</sub>", "</sup>", "</DOC>"} -> 6
    [] t = "<SECTION>" -> 9
    [] t = "<ARTICLE>" -> 9
    [] t \in {"</SECTION>", "</ARTICLE>"} -> 10
    [] t = "<PARAGRAPH>" -> 11
    [] t = "</PARAGRAPH>" -> 12
    [] t = "<DOC title=\"T\">" -> 15
    [] t = "<DOC title=\"T\" type=\"EE\">" -> 25
    [] t = "<SECTION title=\"S\">" -> 19
    [] t \in {"<ARTICLE title=\"A\">", "<ARTICLE title=\"B\">"} -> 19
    [] OTHER -> 1

\* Tokens whose first character is '<', and tokens that hold a '>'.
StartsWithLt == TagTokens \cup {CDO}
HoldsGt      == TagTokens \cup {CDC}

\* The markers of the rendered text: they stand for the title brackets, the
\* article square and the paragraph dash of the source's f-strings.
LBR    == "[["
RBR    == "]]"
SQUARE == "# "
DASH   == "- "
\* The fixed texts of the source.
NO_TITLE        == "(no title)"
EXTRACT_FAILED  == "(text extraction failed)"

\* The element name of a tag token.
TagName(t) ==
  CASE t \in RootTags -> "DOC"
    [] t \in SectionTags -> "SECTION"
    [] t \in ArticleTags -> "ARTICLE"
    [] t \in {"<PARAGRAPH>", "</PARAGRAPH>"} -> "PARAGRAPH"
    [] t \in {"<sub>", "</sub>"} -> "sub"
    [] t \in {"<sup>", "</sup>"} -> "sup"
    [] t \in {"<br>", "<br/>"} -> "br"
    [] t = "</DOC>" -> "DOC"
    [] t = "</SECTION>" -> "SECTION"
    [] t = "</ARTICLE>" -> "ARTICLE"
    [] OTHER -> ""

\* The closing tag f'</{tag}>' of an element name.
CloseTok(n) ==
  CASE n = "DOC" -> "</DOC>"
    [] n = "SECTION" -> "</SECTION>"
    [] n = "ARTICLE" -> "</ARTICLE>"
    [] n = "PARAGRAPH" -> "</PARAGRAPH>"
    [] n = "sub" -> "</sub>"
    [] n = "sup" -> "</sup>"
    [] OTHER -> "</br>"

\* The value of a tag token's title attribute ("" when it has none).
TitleAttr(t) ==
  CASE t \in {"<DOC title=\"T\">", "<DOC title=\"T\" type=\"EE\">"} -> "T"
    [] t = "<SECTION title=\"S\">" -> "S"
    [] t = "<ARTICLE title=\"A\">" -> "A"
    [] t = "<ARTICLE title=\"B\">" -> "B"
    [] OTHER -> ""

\* The value of a tag token's type attribute ("" when it has none).
TypeAttr(t) == IF t = "<DOC title=\"T\" type=\"EE\">" THEN "EE" ELSE ""

(***************************************************************************)
(* Sequence helpers.                                                       *)
(***************************************************************************)
Drop(s, n) == SubSeq(s, n + 1, Len(s))
Take(s, n) == SubSeq(s, 1, IF n < Len(s) THEN n ELSE Len(s))

\* The least index i >= from with s[i] \in S, or 0.
RECURSIVE IndexFrom(_, _, _)
IndexFrom(s, from, S) ==
  IF from > Len(s) THEN 0
  ELSE IF s[from] \in S THEN from
  ELSE IndexFrom(s, from + 1, S)

IsPrefix(p, s) == Len(p) <= Len(s) /\ SubSeq(s, 1, Len(p)) = p

\* str.replace(old, new): every non-overlapping occurrence, left to right.
RECURSIVE Replace(_, _, _)
Replace(s, old, new) ==
  IF s = <<>> THEN <<>>
  ELSE IF IsPrefix(old, s) THEN new \o Replace(Drop(s, Len(old)), old, new)
  ELSE <<Head(s)>> \o Replace(Tail(s), old, new)

\* '\n'.join(parts)
RECURSIVE Join(_)
Join(parts) ==
  IF parts = <<>> THEN <<>>
  ELSE IF Len(parts) = 1 THEN parts[1]
  ELSE parts[1] \o <<NL>> \o Join(Tail(parts))


(***************************************************************************)
(* The regular expressions of the source, on token sequences.              *)
(***************************************************************************)
\* re.sub(r'<sub>(.*?)</sub>', r'\1', s), and the same for sup: the first
\* closing tag after an opening tag ends the match; '.' stops at a newline.
RECURSIVE Unwrap(_, _, _)
Unwrap(s, o, c) ==
  IF s = <<>> THEN <<>>
  ELSE IF Head(s) = o
    THEN LET j == IndexFrom(s, 2, {c, NL})
         IN IF j # 0 /\ s[j] = c
              THEN SubSeq(s, 2, j - 1) \o Unwrap(Drop(s, j), o, c)
              ELSE <<o>> \o Unwrap(Tail(s), o, c)
  ELSE <<Head(s)>> \o Unwrap(Tail(s), o, c)

\* re.findall(r'<!\[CDATA\[(.*?)\]\]>', s, re.DOTALL): the captured contents.
RECURSIVE CdataBlocks(_)
CdataBlocks(s) ==
  IF s = <<>> THEN <<>>
  ELSE IF Head(s) = CDO
    THEN LET j == IndexFrom(s, 2, {CDC})
         IN IF j # 0
              THEN <<SubSeq(s, 2, j - 1)>> \o CdataBlocks(Drop(s, j))
              ELSE <<>>
  ELSE CdataBlocks(Tail(s))

\* re.sub(r'<!\[CDATA\[(.*?)\]\]>', r'\1', s, flags=re.DOTALL)
RECURSIVE StripCdata(_)
StripCdata(s) ==
  IF s = <<>> THEN <<>>
  ELSE IF Head(s) = CDO
    THEN LET j == IndexFrom(s, 2, {CDC})
         IN IF j # 0
              THEN SubSeq(s, 2, j - 1) \o StripCdata(Drop(s, j))
              ELSE s
  ELSE <<Head(s)>> \o StripCdata(Tail(s))

\* re.sub(r'&(?!(amp;|lt;|gt;|apos;|quot;|#\d+;|#x[0-9a-fA-F]+;))', '&amp;', s)
RECURSIVE EscapeAmp(_)
EscapeAmp(s) ==
  IF s = <<>> THEN <<>>
  ELSE IF Head(s) = AMP /\ ~(Len(s) >= 2 /\ s[2] \in EntityTails)
    THEN <<AMP, "amp;">> \o EscapeAmp(Tail(s))
  ELSE <<Head(s)>> \o EscapeAmp(Tail(s))

\* re.sub(r'<br\s*/?>', ' ', s)
BrToSpace(s) == [i \in 1..Len(s) |-> IF s[i] \in {"<br>", "<br/>"} THEN SP ELSE s[i]]

\* re.findall(r'<(\w+)(?:\s+[^>]*)?>[^<]*$', s): an opening tag after which no
\* '<' follows up to the end of the string, so at most the last tag.
LastLt(s) ==
  LET I == {i \in 1..Len(s) : s[i] \in StartsWithLt}
  IN IF I = {} THEN 0 ELSE CHOOSE i \in I : \A j \in I : j <= i
OpenedTags(s) ==
  IF LastLt(s) # 0 /\ s[LastLt(s)] \in OpenTags
    THEN <<TagName(s[LastLt(s)])>>
    ELSE <<>>

\* for tag in reversed(opened_tags): xml_string += f'</{tag}>'
RECURSIVE AppendClosers(_, _)
AppendClosers(s, tags) ==
  IF tags = <<>> THEN s
  ELSE AppendClosers(s \o <<CloseTok(tags[Len(tags)])>>, SubSeq(tags, 1, Len(tags) - 1))

\* re.sub(r'<[^>]+>', rep, s) and re.sub(r'<[^>]*>', rep, s): a tag token is a
\* match by itself; a CDATA opener matches up to the next token holding '>'.
RECURSIVE StripTags(_, _)
StripTags(s, rep) ==
  IF s = <<>> THEN <<>>
  ELSE IF Head(s) \in TagTokens THEN rep \o StripTags(Tail(s), rep)
  ELSE IF Head(s) = CDO
    THEN LET j == IndexFrom(s, 2, HoldsGt)
         IN IF j # 0 THEN rep \o StripTags(Drop(s, j), rep)
            ELSE <<CDO>> \o StripTags(Tail(s), rep)
  ELSE <<Head(s)>> \o StripTags(Tail(s), rep)

\* html.unescape(s)
RECURSIVE Unescape(_)
Unescape(s) ==
  IF s = <<>> THEN <<>>
  ELSE IF Head(s) = AMP /\ Len(s) >= 2 /\ s[2] = "amp;"
    THEN <<AMP>> \o Unescape(Drop(s, 2))
  ELSE <<Head(s)>> \o Unescape(Tail(s))

\* text.replace('\r', '').replace('\t', ' ')
RECURSIVE ReplaceCrTab(_)
ReplaceCrTab(s) ==
  IF s = <<>> THEN <<>>
  ELSE IF Head(s) = CR THEN ReplaceCrTab(Tail(s))
  ELSE IF Head(s) = TAB THEN <<SP>> \o ReplaceCrTab(Tail(s))
  ELSE <<Head(s)>> \o ReplaceCrTab(Tail(s))

\* re.sub(r' +', ' ', s)
RECURSIVE CollapseSpaces(_)
CollapseSpaces(s) ==
  IF s = <<>> THEN <<>>
  ELSE IF Head(s) = SP /\ Len(s) >= 2 /\ s[2] = SP THEN CollapseSpaces(Tail(s))
  ELSE <<Head(s)>> \o CollapseSpaces(Tail(s))

\* re.sub(r'\s+', ' ', s)
RECURSIVE CollapseWhite(_)
CollapseWhite(s) ==
  IF s = <<>> THEN <<>>
  ELSE IF Head(s) \in WhiteSpace
    THEN IF Len(s) >= 2 /\ s[2] \in WhiteSpace
           THEN CollapseWhite(Tail(s))
           ELSE <<SP>> \o CollapseWhite(Tail(s))
  ELSE <<Head(s)>> \o CollapseWhite(Tail(s))

\* s.strip()
RECURSIVE LStrip(_)
LStrip(s) == IF s # <<>> /\ Head(s) \in WhiteSpace THEN LStrip(Tail(s)) ELSE s
RECURSIVE RStrip(_)
RStrip(s) ==
  IF s # <<>> /\ s[Len(s)] \in WhiteSpace THEN RStrip(SubSeq(s, 1, Len(s) - 1)) ELSE s
Strip(s) == RStrip(LStrip(s))

\* len(s)
RECURSIVE StrLen(_)
StrLen(s) == IF s = <<>> THEN 0 ELSE CharLen(Head(s)) + StrLen(Tail(s))


(***************************************************************************)
(* ET.fromstring: the XML parser.  An element is a record with its opening *)
(* tag (tok), its text up to its first child element (text: entity         *)
(* references decoded, CDATA content literal) and its child elements       *)
(* (kids).  A string that is not a well-formed document is a ParseError.   *)
(***************************************************************************)
ParseError == [exception |-> "ParseError"]
NoRoot     == [tok |-> "", text |-> <<>>, kids |-> <<>>]
IsParseError(r) == "exception" \in DOMAIN r

Frame(t)   == [tok |-> t, text |-> <<>>, kids |-> <<>>]

\* Character data inside the innermost open element: part of its text until
\* its first child element, part of a child's tail (which is dropped) after.
AddText(stack, t) ==
  LET top == stack[Len(stack)]
  IN IF top.kids = <<>>
       THEN [stack EXCEPT ![Len(stack)].text = @ \o <<t>>]
       ELSE stack

AddKid(stack, node) == [stack EXCEPT ![Len(stack)].kids = @ \o <<node>>]

RECURSIVE XmlScan(_, _, _, _, _)
XmlScan(s, i, stack, root, cd) ==
  IF i > Len(s)
    THEN IF cd \/ stack # <<>> \/ root = NoRoot THEN ParseError ELSE root
  ELSE LET t == s[i] IN
    IF cd
      THEN IF t = CDC THEN XmlScan(s, i + 1, stack, root, FALSE)
           ELSE XmlScan(s, i + 1, AddText(stack, t), root, TRUE)
    ELSE IF stack = <<>>
      THEN IF t \in WhiteSpace THEN XmlScan(s, i + 1, stack, root, FALSE)
           ELSE IF root = NoRoot /\ t \in OpenTags
             THEN XmlScan(s, i + 1, <<Frame(t)>>, root, FALSE)
           ELSE IF root = NoRoot /\ t \in EmptyTags
             THEN XmlScan(s, i + 1, stack, Frame(t), FALSE)
           ELSE ParseError
    ELSE IF t \in OpenTags
      THEN XmlScan(s, i + 1, stack \o <<Frame(t)>>, root, FALSE)
    ELSE IF t \in EmptyTags
      THEN XmlScan(s, i + 1, AddKid(stack, Frame(t)), root, FALSE)
    ELSE IF t \in CloseTags
      THEN LET top == stack[Len(stack)]
               rest == SubSeq(stack, 1, Len(stack) - 1)
           IN IF TagName(t) # TagName(top.tok) THEN ParseError
              ELSE IF rest = <<>> THEN XmlScan(s, i + 1, rest, top, FALSE)
              ELSE XmlScan(s, i + 1, AddKid(rest, top), root, FALSE)
    ELSE IF t = CDO THEN XmlScan(s, i + 1, stack, root, TRUE)
    ELSE IF t = CDC THEN ParseError
    ELSE IF t = AMP
      THEN IF i < Len(s) /\ s[i + 1] \in EntityTails
             THEN XmlScan(s, i + 2, AddText(stack, AMP), root, FALSE)
             ELSE ParseError
    ELSE XmlScan(s, i + 1, AddText(stack, t), root, FALSE)

ET_fromstring(s) == XmlScan(s, 1, <<>>, NoRoot, FALSE)

\* element.findall(name): the direct children with that element name.
RECURSIVE SelectKids(_, _)
SelectKids(kids, name) ==
  IF kids = <<>> THEN <<>>
  ELSE IF TagName(Head(kids).tok) = name
    THEN <<Head(kids)>> \o SelectKids(Tail(kids), name)
  ELSE SelectKids(Tail(kids), name)
FindAll(node, name) == SelectKids(node.kids, name)


(***************************************************************************)
(* The program constants.                                                  *)
(***************************************************************************)
\* xml_string[:500]: the characters of the input an error record keeps.
RAW_LIMIT == 500
\* len(s.strip()) > 10: the least length of a sentence worth keeping.
MIN_SENTENCE == 10

(***************************************************************************)
(* The Entity Sanitizer: the first step of parse_xml_doc.                  *)
(***************************************************************************)
\* The loop over cdata_blocks: the values xml_string takes, one per block.
RECURSIVE FixBlocksTrace(_, _)
FixBlocksTrace(s, blocks) ==
  IF blocks = <<>> THEN <<>>
  ELSE LET block == Head(blocks)
           fixed_block == EscapeAmp(block)
           next == Replace(s, <<CDO>> \o block \o <<CDC>>,
                              <<CDO>> \o fixed_block \o <<CDC>>)
       IN <<next>> \o FixBlocksTrace(next, Tail(blocks))

\* Every value xml_string holds during the sanitizer, in order.
SanitizeTrace(s) ==
  LET s1 == Unwrap(s, "<sub>", "</sub>")
      s2 == Unwrap(s1, "<sup>", "</sup>")
  IN <<s, s1, s2>> \o FixBlocksTrace(s2, CdataBlocks(s2))

Sanitize(s) == SanitizeTrace(s)[Len(SanitizeTrace(s))]

(***************************************************************************)
(* The Structured Extractor: the tree walk of parse_xml_doc and of         *)
(* handle_complex_xml_parsing, and extract_text_from_parsed_doc.           *)
(***************************************************************************)
\* The clean-up of one paragraph's text.  Only parse_xml_doc (first = TRUE)
\* removes CDATA markers that survived in the text.
CleanParagraph(text, first) ==
  LET a == IF first /\ CDO \in {text[i] : i \in 1..Len(text)}
             THEN StripCdata(text) ELSE text
      b == StripTags(a, <<>>)
      c == Unescape(b)
      d == ReplaceCrTab(c)
      e == CollapseSpaces(d)
  IN Strip(e)

RECURSIVE Paragraphs(_, _)
Paragraphs(nodes, first) ==
  IF nodes = <<>> THEN <<>>
  ELSE LET text == CleanParagraph(Head(nodes).text, first)
       IN (IF text # <<>> THEN <<text>> ELSE <<>>) \o Paragraphs(Tail(nodes), first)

\* Articles as it would be if each article were put in front of the list.
RECURSIVE Articles_Reversed(_, _)
Articles_Reversed(nodes, first) ==
  IF nodes = <<>> THEN <<>>
  ELSE LET article_data ==
             [title |-> TitleAttr(Head(nodes).tok),
              paragraphs |-> Paragraphs(FindAll(Head(nodes), "PARAGRAPH"), first)]
       IN Articles_Reversed(Tail(nodes), first)
          \o (IF article_data.paragraphs # <<>> \/ article_data.title # ""
                THEN <<article_data>> ELSE <<>>)

\* Articles as it would be without the test that drops an empty article.
RECURSIVE Articles_KeepAll(_, _)
Articles_KeepAll(nodes, first) ==
  IF nodes = <<>> THEN <<>>
  ELSE LET article_data ==
             [title |-> TitleAttr(Head(nodes).tok),
              paragraphs |-> Paragraphs(FindAll(Head(nodes), "PARAGRAPH"), first)]
       IN <<article_data>> \o Articles_KeepAll(Tail(nodes), first)

RECURSIVE Articles(_, _)
Articles(nodes, first) ==
  IF nodes = <<>> THEN <<>>
  ELSE LET article_data ==
             [title |-> TitleAttr(Head(nodes).tok),
              paragraphs |-> Paragraphs(FindAll(Head(nodes), "PARAGRAPH"), first)]
       IN (IF article_data.paragraphs # <<>> \/ article_data.title # ""
             THEN <<article_data>> ELSE <<>>)
          \o Articles(Tail(nodes), first)

RECURSIVE Sections(_, _)
Sections(nodes, first) ==
  IF nodes = <<>> THEN <<>>
  ELSE LET section_data ==
             [title |-> TitleAttr(Head(nodes).tok),
              articles |-> Articles(FindAll(Head(nodes), "ARTICLE"), first)]
       IN (IF section_data.articles # <<>> THEN <<section_data>> ELSE <<>>)
          \o Sections(Tail(nodes), first)

\* The list of lines extract_text_from_parsed_doc collects.
RECURSIVE ParagraphLines(_)
ParagraphLines(ps) ==
  IF ps = <<>> THEN <<>>
  ELSE <<(<<DASH>> \o Head(ps))>> \o ParagraphLines(Tail(ps))

RECURSIVE ArticleLines(_)
ArticleLines(as) ==
  IF as = <<>> THEN <<>>
  ELSE (IF Head(as).title # "" THEN <<(<<NL, SQUARE, Head(as).title>>)>> ELSE <<>>)
       \o ParagraphLines(Head(as).paragraphs)
       \o ArticleLines(Tail(as))

RECURSIVE SectionLines(_)
SectionLines(ss) ==
  IF ss = <<>> THEN <<>>
  ELSE ArticleLines(Head(ss).articles) \o SectionLines(Tail(ss))

DocLines(doc_data) ==
  (IF doc_data.title # "" THEN <<(<<LBR, doc_data.title, RBR>>)>> ELSE <<>>)
  \o SectionLines(doc_data.sections)

extract_text_from_parsed_doc(doc_data) == Join(DocLines(doc_data))

\* The record parse_xml_doc and handle_complex_xml_parsing build from a tree.
ParsedDoc(root, first) ==
  LET result == [title |-> TitleAttr(root.tok),
                 type |-> TypeAttr(root.tok),
                 sections |-> Sections(FindAll(root, "SECTION"), first)]
  IN [title |-> result.title, type |-> result.type,
      sections |-> result.sections,
      text |-> extract_text_from_parsed_doc(result)]

(***************************************************************************)
(* Tag-Repair Recovery: the preprocessing of handle_complex_xml_parsing.   *)
(***************************************************************************)
\* RepairTrace as it would be without the escaping of bare ampersands.
RepairTrace_NoEscape(s) ==
  LET s1 == StripCdata(s)
      s2 == Unwrap(s1, "<sub>", "</sub>")
      s3 == Unwrap(s2, "<sup>", "</sup>")
      s4 == BrToSpace(s3)
      s5 == s4
      s6 == AppendClosers(s5, OpenedTags(s5))
  IN <<s, s1, s2, s3, s4, s5, s6>>

\* Every value xml_string holds during the repair, in order.
RepairTrace(s) ==
  LET s1 == StripCdata(s)
      s2 == Unwrap(s1, "<sub>", "</sub>")
      s3 == Unwrap(s2, "<sup>", "</sup>")
      s4 == BrToSpace(s3)
      s5 == EscapeAmp(s4)
      s6 == AppendClosers(s5, OpenedTags(s5))
  IN <<s, s1, s2, s3, s4, s5, s6>>

Repair(s) == RepairTrace(s)[Len(RepairTrace(s))]


(***************************************************************************)
(* Regex Salvage and Plain-Text Fallback: extract_text_from_broken_xml.    *)
(***************************************************************************)
\* The preprocessing at the head of extract_text_from_broken_xml.
SalvagePrepare(s) ==
  BrToSpace(Unwrap(Unwrap(StripCdata(s), "<sub>", "</sub>"), "<sup>", "</sup>"))

\* re.search(r'title="([^"]+)"', s): the first non-empty title attribute.
TitledTokens == {t \in TagTokens : TitleAttr(t) # ""}
DocTitle(s) ==
  LET i == IndexFrom(s, 1, TitledTokens)
  IN IF i # 0 THEN TitleAttr(s[i]) ELSE NO_TITLE

\* re.findall(r'<ARTICLE title="([^"]+)"', s)
RECURSIVE ArticleTitles(_)
ArticleTitles(s) ==
  IF s = <<>> THEN <<>>
  ELSE (IF Head(s) \in ArticleTags /\ TitleAttr(Head(s)) # ""
          THEN <<TitleAttr(Head(s))>> ELSE <<>>)
       \o ArticleTitles(Tail(s))

\* re.findall(r'<PARAGRAPH[^>]*>(.*?)</PARAGRAPH>', s, re.DOTALL)
RECURSIVE ParagraphContents(_)
ParagraphContents(s) ==
  IF s = <<>> THEN <<>>
  ELSE IF Head(s) = "<PARAGRAPH>"
    THEN LET j == IndexFrom(s, 2, {"</PARAGRAPH>"})
         IN IF j # 0
              THEN <<SubSeq(s, 2, j - 1)>> \o ParagraphContents(Drop(s, j))
              ELSE <<>>
  ELSE ParagraphContents(Tail(s))

CleanContent(content) ==
  Strip(CollapseSpaces(ReplaceCrTab(Unescape(StripTags(content, <<>>)))))

RECURSIVE TitleParts(_)
TitleParts(titles) ==
  IF titles = <<>> THEN <<>>
  ELSE (IF Strip(<<Head(titles)>>) # <<>>
          THEN <<(<<NL, SQUARE, Head(titles)>>)>> ELSE <<>>)
       \o TitleParts(Tail(titles))

RECURSIVE ContentParts(_)
ContentParts(contents) ==
  IF contents = <<>> THEN <<>>
  ELSE LET content == CleanContent(Head(contents))
       IN (IF content # <<>> THEN <<(<<DASH>> \o content)>> ELSE <<>>)
          \o ContentParts(Tail(contents))

Header(doc_title) == <<LBR, doc_title, RBR>>

\* SalvageText as it would be if the paragraphs were added before the titles.
SalvageText_ParagraphsFirst(s) ==
  Join(<<Header(DocTitle(s))>> \o ContentParts(ParagraphContents(s))
         \o TitleParts(ArticleTitles(s)))

\* result['text'] after the regex salvage, s being the prepared string.
SalvageText(s) ==
  Join(<<Header(DocTitle(s))>> \o TitleParts(ArticleTitles(s))
         \o ContentParts(ParagraphContents(s)))

\* re.split(r'[.!?]\s+', s)
RECURSIVE SplitSentences(_, _)
SplitSentences(s, i) ==
  IF i >= Len(s) THEN <<s>>
  ELSE IF s[i] = DOT /\ s[i + 1] \in WhiteSpace
    THEN <<SubSeq(s, 1, i - 1)>> \o SplitSentences(LStrip(Drop(s, i)), 1)
  ELSE SplitSentences(s, i + 1)

\* Meaningful as it would be without the test of the length.
RECURSIVE Meaningful_KeepAll(_)
Meaningful_KeepAll(sentences) ==
  IF sentences = <<>> THEN <<>>
  ELSE <<Strip(Head(sentences)) \o <<DOT>>>> \o Meaningful_KeepAll(Tail(sentences))

RECURSIVE Meaningful(_)
Meaningful(sentences) ==
  IF sentences = <<>> THEN <<>>
  ELSE (IF StrLen(Strip(Head(sentences))) > MIN_SENTENCE
          THEN <<Strip(Head(sentences)) \o <<DOT>>>> ELSE <<>>)
       \o Meaningful(Tail(sentences))

\* '\n- '.join([''] + meaningful_sentences)
RECURSIVE Bulleted(_)
Bulleted(ms) ==
  IF ms = <<>> THEN <<>>
  ELSE <<NL, DASH>> \o Head(ms) \o Bulleted(Tail(ms))

\* re.sub(r'<[^>]*>', ' ', s), html.unescape, re.sub(r'\s+', ' ', .).strip()
PlainOf(s) == Strip(CollapseWhite(Unescape(StripTags(s, <<SP>>))))

\* PlainText as it would be if no sentence were ever kept.
PlainText_NoSentences(s) ==
  Header(DocTitle(s)) \o <<NL, NL, DASH, EXTRACT_FAILED>>

\* result['text'] of the plain-text fallback, s being the prepared string.
PlainText(s) ==
  LET meaningful_sentences == Meaningful(SplitSentences(PlainOf(s), 1))
  IN IF meaningful_sentences # <<>>
       THEN Header(DocTitle(s)) \o <<NL, NL>> \o Bulleted(meaningful_sentences)
       ELSE Header(DocTitle(s)) \o <<NL, NL, DASH, EXTRACT_FAILED>>

SalvageDoc(s, text) == [title |-> DocTitle(s), type |-> "text_extraction", text |-> text]

\* The last resort of extract_text_from_broken_xml, on the string it was given.
RawTextDoc(original_xml) ==
  [title |-> "(text extraction)", type |-> "raw_text", text |-> PlainOf(original_xml)]

LastErrorDoc ==
  [title |-> "(extraction failure)", type |-> "error",
   text |-> <<"(the text extraction failed.)">>]

\* xml_string[:500] + ('...' if len(xml_string) > 500 else ''), to the token.
RECURSIVE TakeChars(_, _)
TakeChars(s, n) ==
  IF s = <<>> \/ CharLen(Head(s)) > n THEN <<>>
  ELSE <<Head(s)>> \o TakeChars(Tail(s), n - CharLen(Head(s)))

\* The record of parse_xml_doc's outermost handler.
ErrorDoc(xml, e) ==
  [title |-> "(processing error)", type |-> "error", error |-> e,
   text |-> <<"(processing error): ", e>>,
   raw |-> TakeChars(xml, RAW_LIMIT)
            \o (IF StrLen(xml) > RAW_LIMIT THEN <<"...">> ELSE <<>>)]


(***************************************************************************)
(* The document fields the pipeline is run on.                             *)
(***************************************************************************)
SeqsUpTo(S, n) == UNION {[1..k -> S] : k \in 0..n}

\* Well-formed documents of at most MaxNodes elements below the root.
WFBodies    == {<<>>, <<"x">>, <<"y">>}
WFRoots     == {"<DOC title=\"T\" type=\"EE\">"}
WFArticles  == {"<ARTICLE>", "<ARTICLE title=\"A\">"}

RECURSIVE ParaLists(_)
ParaLists(n) ==
  IF n = 0 THEN {<<>>}
  ELSE {<<>>} \cup {<<"<PARAGRAPH>">> \o b \o <<"</PARAGRAPH>">> \o r :
                     b \in WFBodies, r \in ParaLists(n - 1)}

RECURSIVE ArticleLists(_)
ArticleLists(n) ==
  IF n = 0 THEN {<<>>}
  ELSE {<<>>} \cup UNION {
         {<<t>> \o ps \o <<"</ARTICLE>">> \o r :
            t \in WFArticles, ps \in ParaLists(k), r \in ArticleLists(n - 1 - k)} :
         k \in 0..(n - 1)}

RECURSIVE SectionLists(_)
SectionLists(n) ==
  IF n = 0 THEN {<<>>}
  ELSE {<<>>} \cup UNION {
         {<<"<SECTION>">> \o as \o <<"</SECTION>">> \o r :
            as \in ArticleLists(k), r \in SectionLists(n - 1 - k)} :
         k \in 0..(n - 1)}

WellFormedDocs ==
  {<<r>> \o ss \o <<"</DOC>">> : r \in WFRoots, ss \in SectionLists(MaxNodes)}

\* One titled article with one paragraph whose body is any short string.
BodyAlpha == {"x", SP, AMP, "amp;", CDO, CDC, "<br>"}
BodyDocs ==
  {<<"<DOC title=\"T\">", "<SECTION>", "<ARTICLE title=\"A\">", "<PARAGRAPH>">>
     \o b \o <<"</PARAGRAPH>", "</ARTICLE>", "</SECTION>", "</DOC>">> :
   b \in SeqsUpTo(BodyAlpha, MaxBody)}

\* Documents that lost tokens, and documents cut short.
IntactDocs ==
  {<<"<DOC title=\"T\">", "<SECTION>", "<ARTICLE title=\"B\">", "<PARAGRAPH>", "x",
     "</PARAGRAPH>", "</ARTICLE>", "</SECTION>", "</DOC>">>,
   <<"<DOC title=\"T\" type=\"EE\">", "<SECTION title=\"S\">",
     "<ARTICLE title=\"A\">", "<PARAGRAPH>", "x", AMP, "y", "</PARAGRAPH>", "</ARTICLE>",
     "<ARTICLE title=\"B\">", "<PARAGRAPH>", CDO, "y", CDC, "</PARAGRAPH>", "</ARTICLE>",
     "</SECTION>", "</DOC>">>}

RemoveAt(s, i) == SubSeq(s, 1, i - 1) \o SubSeq(s, i + 1, Len(s))

RECURSIVE Damaged(_, _)
Damaged(S, n) ==
  IF n = 0 THEN S
  ELSE S \cup Damaged(UNION {{RemoveAt(s, i) : i \in 1..Len(s)} : s \in S}, n - 1)


DamagedDocs   == Damaged(IntactDocs, MaxDrop)
TruncatedDocs == UNION {{SubSeq(d, 1, k) : k \in 1..Len(d)} : d \in IntactDocs}

\* Free-form strings.
RawAlpha ==
  {"x", WORD, DOT, SP, TAB, CR, NL, AMP, "<br/>",
   "<DOC>", "</DOC>", "<PARAGRAPH>", "</PARAGRAPH>", "<ARTICLE title=\"A\">"}
RawStrings == SeqsUpTo(RawAlpha, MaxRaw)

\* Strings of presentational tags.
InlineAlpha   == {"<sub>", "</sub>", "<sup>", "</sup>"}
InlineStrings == SeqsUpTo(InlineAlpha, MaxInline)

Strings == WellFormedDocs \cup BodyDocs \cup DamagedDocs \cup TruncatedDocs
             \cup RawStrings \cup InlineStrings

\* A field value: absent (None) or a string.
Inputs == {[none |-> TRUE, str |-> <<>>]} \cup [none : {FALSE}, str : Strings]

(***************************************************************************)
(* The state of one call of parse_xml_doc.                                 *)
(***************************************************************************)
VARIABLES
  pc,            \* where the call stands
  input,         \* the argument of parse_xml_doc
  xml_string,    \* the local xml_string of the function that is running
  original_xml,  \* extract_text_from_broken_xml's copy of its argument
  result,        \* the value returned
  tier,          \* the stage that built the value returned
  trace,         \* the stages entered so far, in order
  faulted        \* whether a stage raised an exception other than ParseError

parse_vars == <<pc, input, xml_string, original_xml, result, tier, trace, faulted>>

\* The state of one call of filter_data_async.  An item is named by its
\* place in data.
VARIABLES
  f_pc,          \* where the call stands
  data,          \* the argument data: per item, whether it has an ITEM_SEQ
  batch_size,    \* the argument batch_size
  idx,           \* the items the for loop has taken
  tasks,         \* the local list tasks
  begun,         \* the tasks of the gather that have begun
  running,       \* the tasks whose request is in flight
  results,       \* the triples the tasks of the gather have returned
  valid_data,    \* the local list valid_data
  outcome,       \* per item, how its check ended ("" while it has not)
  calls          \* per item, how often fetch_status has begun on it

filter_vars ==
  <<f_pc, data, batch_size, idx, tasks, begun, running, results, valid_data,
    outcome, calls>>

\* The state of one call of validate_and_preprocess_data, or of one call of
\* merge_drug_data followed by analyze_results on what it returned.
VARIABLES
  m_pc,          \* where the call stands
  data_list,     \* the argument data_list of validate_and_preprocess_data
  processed,     \* what validate_and_preprocess_data returned, or that it raised
  approval_data, \* the argument approval_data of merge_drug_data
  pill_data,     \* the argument pill_data of merge_drug_data
  merge_result,  \* the dictionary merge_drug_data returned
  analysis       \* the dictionary analyze_results returned

merge_vars ==
  <<m_pc, data_list, processed, approval_data, pill_data, merge_result,
    analysis>>

\* The state of one call of fetch_drug_approval_data and of the source it
\* reads.
VARIABLES
  c_pc,                    \* where the call stands
  feed,                    \* the items of the source, in the order of its pages
  total_count,             \* the totalCount the source reports
  page_no,                 \* the local page_no
  total_data,              \* the local list total_data
  last_page_items,         \* the local last_page_items
  seen_item_sequences,     \* the local set seen_item_sequences
  filtered_canceled_count, \* the local counter of cancelled items
  filtered_export_count,   \* the local counter of export items
  retries,                 \* the local retries of the page
  success,                 \* the local success of the page
  requests,                \* the requests issued for the page page_no
  failed                   \* whether an attempt has failed

collect_vars ==
  <<c_pc, feed, total_count, page_no, total_data, last_page_items,
    seen_item_sequences, filtered_canceled_count, filtered_export_count,
    retries, success, requests, failed>>

not_parse_vars   == <<filter_vars, merge_vars, collect_vars>>
not_filter_vars  == <<parse_vars, merge_vars, collect_vars>>
not_merge_vars   == <<parse_vars, filter_vars, collect_vars>>
not_collect_vars == <<parse_vars, filter_vars, merge_vars>>

vars == <<parse_vars, filter_vars, merge_vars, collect_vars>>

CollectIdle ==
  /\ c_pc = "idle"
  /\ feed = <<>>
  /\ total_count = 0
  /\ page_no = 1
  /\ total_data = <<>>
  /\ last_page_items = -1
  /\ seen_item_sequences = {}
  /\ filtered_canceled_count = 0
  /\ filtered_export_count = 0
  /\ retries = 0
  /\ success = FALSE
  /\ requests = 0
  /\ failed = FALSE

MergeIdle ==
  /\ m_pc = "idle"
  /\ data_list = <<>>
  /\ processed = [raised |-> FALSE, list |-> <<>>]
  /\ approval_data = <<>>
  /\ pill_data = <<>>
  /\ merge_result = [merged |-> <<>>, unmatchedPills |-> <<>>,
                     unmatchedApprovals |-> <<>>]
  /\ analysis = [totalItems |-> 0, totalMerged |-> 0,
                 totalUnmatchedPills |-> 0, totalUnmatchedApprovals |-> 0,
                 matchRate |-> 0, actionNeeded |-> "ALL_MATCHED"]

FilterIdle ==
  /\ f_pc = "idle"
  /\ data = <<>>
  /\ batch_size = 1
  /\ idx = 0
  /\ tasks = <<>>
  /\ begun = {}
  /\ running = {}
  /\ results = <<>>
  /\ valid_data = <<>>
  /\ outcome = <<>>
  /\ calls = <<>>

ParseIdle ==
  /\ pc = "idle"
  /\ input = [none |-> TRUE, str |-> <<>>]
  /\ xml_string = <<>>
  /\ original_xml = <<>>
  /\ result = [pending |-> TRUE]
  /\ tier = ""
  /\ trace = <<>>
  /\ faulted = FALSE

Pending    == [pending |-> TRUE]
NoneResult == [none |-> TRUE]

Init ==
  /\ pc = "idle"
  /\ input = [none |-> TRUE, str |-> <<>>]
  /\ xml_string = <<>>
  /\ original_xml = <<>>
  /\ result = Pending
  /\ tier = ""
  /\ trace = <<>>
  /\ faulted = FALSE
  /\ FilterIdle
  /\ MergeIdle
  /\ CollectIdle

\* HandlerOf as it would be if the outermost handler of parse_xml_doc caught
\* ParseError only.
HandlerOf_ParseErrorOnly(stage) ==
  CASE stage = "repair" -> "salvage"
    [] stage = "parse2" -> "salvage"
    [] stage = "salvage" -> "last_resort"
    [] stage = "plain" -> "last_resort"
    [] stage = "last_resort" -> "last_error"
    [] OTHER -> "raised"

\* Where an exception raised in a stage is caught: the stage the handler
\* that encloses it runs, or "raised" when nothing encloses it.
HandlerOf(stage) ==
  CASE stage = "sanitize" -> "outer_except"
    [] stage = "parse1" -> "outer_except"
    [] stage = "repair" -> "salvage"
    [] stage = "parse2" -> "salvage"
    [] stage = "salvage" -> "last_resort"
    [] stage = "plain" -> "last_resort"
    [] stage = "last_resort" -> "last_error"
    [] OTHER -> "raised"

Return(value, by) ==
  /\ result' = value
  /\ tier' = by
  /\ pc' = "done"

\* Call as it would be without the "if not xml_string" guard.
Call_NoGuard ==
  /\ pc = "idle"
  /\ \E v \in Inputs :
       /\ input' = v
       /\ xml_string' = v.str
  /\ pc' = "sanitize"
  /\ UNCHANGED <<original_xml, result, tier, trace, faulted>>
  /\ UNCHANGED not_parse_vars

\* parse_xml_doc is called: "if not xml_string: return None".
Call ==
  /\ pc = "idle"
  /\ \E v \in Inputs :
       /\ input' = v
       /\ xml_string' = v.str
       /\ IF v.none \/ v.str = <<>>
            THEN Return(NoneResult, "none")
            ELSE pc' = "sanitize" /\ UNCHANGED <<result, tier>>
  /\ UNCHANGED <<original_xml, trace>>
  /\ UNCHANGED faulted
  /\ UNCHANGED not_parse_vars

\* Step 1 of parse_xml_doc: the sub/sup unwrap and the CDATA ampersand fix.
SanitizeStep ==
  /\ pc = "sanitize"
  /\ xml_string' = Sanitize(xml_string)
  /\ pc' = "parse1"
  /\ trace' = Append(trace, "sanitizer")
  /\ UNCHANGED <<input, original_xml, result, tier>>
  /\ UNCHANGED faulted
  /\ UNCHANGED not_parse_vars

\* An exception in step 1: xml_string holds the value it had reached.
SanitizeFault ==
  /\ pc = "sanitize"
  /\ \E k \in 1..Len(SanitizeTrace(xml_string)) :
       xml_string' = SanitizeTrace(xml_string)[k]
  /\ pc' = HandlerOf("sanitize")
  /\ trace' = Append(trace, "sanitizer")
  /\ UNCHANGED <<input, original_xml, result, tier>>
  /\ faulted' = TRUE
  /\ UNCHANGED not_parse_vars

\* Parse1 as it would be if every document went on to the tag repair.
Parse1_AlwaysRepair ==
  /\ pc = "parse1"
  /\ trace' = Append(trace, "structured")
  /\ pc' = "repair"
  /\ UNCHANGED <<input, xml_string, original_xml, result, tier, faulted>>
  /\ UNCHANGED not_parse_vars

\* Step 2 of parse_xml_doc: ET.fromstring, the tree walk and the rendering;
\* a ParseError calls handle_complex_xml_parsing.
Parse1 ==
  /\ pc = "parse1"
  /\ trace' = Append(trace, "structured")
  /\ LET root == ET_fromstring(xml_string)
     IN IF IsParseError(root)
          THEN pc' = "repair" /\ UNCHANGED <<result, tier>>
          ELSE Return(ParsedDoc(root, TRUE), "structured")
  /\ UNCHANGED <<input, xml_string, original_xml>>
  /\ UNCHANGED faulted
  /\ UNCHANGED not_parse_vars

\* Any other exception in step 2.
Parse1Fault ==
  /\ pc = "parse1"
  /\ trace' = Append(trace, "structured")
  /\ pc' = HandlerOf("parse1")
  /\ UNCHANGED <<input, xml_string, original_xml, result, tier>>
  /\ faulted' = TRUE
  /\ UNCHANGED not_parse_vars

\* handle_complex_xml_parsing: the preprocessing and the closing of tags.
RepairStep ==
  /\ pc = "repair"
  /\ xml_string' = Repair(xml_string)
  /\ pc' = "parse2"
  /\ trace' = Append(trace, "tag_repair")
  /\ UNCHANGED <<input, original_xml, result, tier>>
  /\ UNCHANGED faulted
  /\ UNCHANGED not_parse_vars

\* An exception in the preprocessing: extract_text_from_broken_xml is called
\* with the value xml_string had reached.
RepairFault ==
  /\ pc = "repair"
  /\ \E k \in 1..Len(RepairTrace(xml_string)) :
       xml_string' = RepairTrace(xml_string)[k]
  /\ pc' = HandlerOf("repair")
  /\ trace' = Append(trace, "tag_repair")
  /\ UNCHANGED <<input, original_xml, result, tier>>
  /\ faulted' = TRUE
  /\ UNCHANGED not_parse_vars

\* handle_complex_xml_parsing: the second ET.fromstring, the tree walk and
\* the rendering; a ParseError calls extract_text_from_broken_xml.
Parse2 ==
  /\ pc = "parse2"
  /\ LET root == ET_fromstring(xml_string)
     IN IF IsParseError(root)
          THEN pc' = "salvage" /\ UNCHANGED <<result, tier>>
          ELSE Return(ParsedDoc(root, FALSE), "recovered")
  /\ UNCHANGED <<input, xml_string, original_xml, trace>>
  /\ UNCHANGED faulted
  /\ UNCHANGED not_parse_vars

\* Any other exception there.
Parse2Fault ==
  /\ pc = "parse2"
  /\ pc' = HandlerOf("parse2")
  /\ UNCHANGED <<input, xml_string, original_xml, result, tier, trace>>
  /\ faulted' = TRUE
  /\ UNCHANGED not_parse_vars

\* Salvage as it would be if the plain-text fallback ran whatever the
\* salvage had recovered.
Salvage_AlwaysPlain ==
  /\ pc = "salvage"
  /\ original_xml' = xml_string
  /\ xml_string' = SalvagePrepare(xml_string)
  /\ trace' = Append(trace, "salvage")
  /\ pc' = "plain"
  /\ UNCHANGED <<input, result, tier, faulted>>
  /\ UNCHANGED not_parse_vars

\* extract_text_from_broken_xml: the regex salvage; when it recovered
\* nothing but the title header, the plain-text fallback comes next.
Salvage ==
  /\ pc = "salvage"
  /\ original_xml' = xml_string
  /\ xml_string' = SalvagePrepare(xml_string)
  /\ trace' = Append(trace, "salvage")
  /\ LET s == SalvagePrepare(xml_string)
         text == SalvageText(s)
     IN IF text = Header(DocTitle(s))
          THEN pc' = "plain" /\ UNCHANGED <<result, tier>>
          ELSE Return(SalvageDoc(s, text), "salvaged")
  /\ UNCHANGED input
  /\ UNCHANGED faulted
  /\ UNCHANGED not_parse_vars

\* An exception in the salvage.
SalvageFault ==
  /\ pc = "salvage"
  /\ original_xml' = xml_string
  /\ trace' = Append(trace, "salvage")
  /\ pc' = HandlerOf("salvage")
  /\ UNCHANGED <<input, xml_string, result, tier>>
  /\ faulted' = TRUE
  /\ UNCHANGED not_parse_vars

\* extract_text_from_broken_xml: the plain-text fallback.
PlainFallback ==
  /\ pc = "plain"
  /\ trace' = Append(trace, "plain_text")
  /\ Return(SalvageDoc(xml_string, PlainText(xml_string)), "plain_text")
  /\ UNCHANGED <<input, xml_string, original_xml>>
  /\ UNCHANGED faulted
  /\ UNCHANGED not_parse_vars

\* An exception in the plain-text fallback.
PlainFault ==
  /\ pc = "plain"
  /\ trace' = Append(trace, "plain_text")
  /\ pc' = HandlerOf("plain")
  /\ UNCHANGED <<input, xml_string, original_xml, result, tier>>
  /\ faulted' = TRUE
  /\ UNCHANGED not_parse_vars

\* extract_text_from_broken_xml's handler: the bare text of original_xml.
LastResort ==
  /\ pc = "last_resort"
  /\ trace' = Append(trace, "last_resort")
  /\ Return(RawTextDoc(original_xml), "raw_text")
  /\ UNCHANGED <<input, xml_string, original_xml>>
  /\ UNCHANGED faulted
  /\ UNCHANGED not_parse_vars

\* An exception in that handler.
LastResortFault ==
  /\ pc = "last_resort"
  /\ trace' = Append(trace, "last_resort")
  /\ pc' = HandlerOf("last_resort")
  /\ UNCHANGED <<input, xml_string, original_xml, result, tier>>
  /\ faulted' = TRUE
  /\ UNCHANGED not_parse_vars

\* extract_text_from_broken_xml's innermost "except:".
LastError ==
  /\ pc = "last_error"
  /\ Return(LastErrorDoc, "last_error")
  /\ UNCHANGED <<input, xml_string, original_xml, trace>>
  /\ UNCHANGED faulted
  /\ UNCHANGED not_parse_vars

\* parse_xml_doc's outermost "except Exception".
OuterExcept ==
  /\ pc = "outer_except"
  /\ Return(ErrorDoc(xml_string, "fault"), "error")
  /\ UNCHANGED <<input, xml_string, original_xml, trace>>
  /\ UNCHANGED faulted
  /\ UNCHANGED not_parse_vars

\* The steps inside a call of parse_xml_doc.
Step ==
  \/ SanitizeStep \/ SanitizeFault
  \/ Parse1 \/ Parse1Fault
  \/ RepairStep \/ RepairFault
  \/ Parse2 \/ Parse2Fault
  \/ Salvage \/ SalvageFault
  \/ PlainFallback \/ PlainFault
  \/ LastResort \/ LastResortFault
  \/ LastError
  \/ OuterExcept

Next == Call \/ Step

Spec == Init /\ [][Next]_vars


(***************************************************************************)
(* filter_available_data.py: the registry cross-check.                     *)
(***************************************************************************)
\* How a request of fetch_status can end: the three answers of the page,
\* the timeout of session.get, a network error.
Answers  == {"REGISTERED", "NOT_REGISTERED", "UNKNOWN_RESPONSE"}
Failures == {"TIMEOUT", "NETWORK"}

Raise == [raise |-> TRUE]

\* fetch_status as it would be without its "except Exception".
FetchResult_NoHandler(o) ==
  CASE o = "REGISTERED" -> [is_valid |-> TRUE, status |-> "REGISTERED"]
    [] o = "NOT_REGISTERED" -> [is_valid |-> FALSE, status |-> "NOT_REGISTERED"]
    [] o = "UNKNOWN_RESPONSE" -> [is_valid |-> FALSE, status |-> "UNKNOWN_RESPONSE"]
    [] o = "ITEM_SEQ_MISSING" -> [is_valid |-> FALSE, status |-> "ITEM_SEQ_MISSING"]
    [] OTHER -> Raise

\* What fetch_status returns for each way its check can end; the handler
\* of line 104 turns a timeout or a network error into a result.
FetchResult(o) ==
  CASE o = "REGISTERED" -> [is_valid |-> TRUE, status |-> "REGISTERED"]
    [] o = "NOT_REGISTERED" -> [is_valid |-> FALSE, status |-> "NOT_REGISTERED"]
    [] o = "UNKNOWN_RESPONSE" -> [is_valid |-> FALSE, status |-> "UNKNOWN_RESPONSE"]
    [] o = "ITEM_SEQ_MISSING" -> [is_valid |-> FALSE, status |-> "ITEM_SEQ_MISSING"]
    [] o \in Failures -> [is_valid |-> FALSE, status |-> "ERROR"]
    [] OTHER -> Raise

\* The lists of items: each item has an ITEM_SEQ or has none.
DataLists == SeqsUpTo({"seq", "noseq"}, MaxItems)

FilterInit == ParseIdle /\ FilterIdle /\ MergeIdle /\ CollectIdle

\* filter_data_async is called.
FilterCall ==
  /\ f_pc = "idle"
  /\ \E d \in DataLists, b \in 1..MaxBatch :
       /\ data' = d
       /\ batch_size' = b
       /\ outcome' = [i \in 1..Len(d) |-> ""]
       /\ calls' = [i \in 1..Len(d) |-> 0]
  /\ f_pc' = "loop"
  /\ UNCHANGED <<idx, tasks, begun, running, results, valid_data>>
  /\ UNCHANGED not_filter_vars

\* AppendTask as it would be if a batch were gathered only once it had
\* grown beyond batch_size.
AppendTask_OffByOne ==
  /\ f_pc = "loop"
  /\ idx < Len(data)
  /\ idx' = idx + 1
  /\ tasks' = Append(tasks, idx + 1)
  /\ f_pc' = IF Len(tasks') > batch_size THEN "gather" ELSE "loop"
  /\ UNCHANGED <<data, batch_size, begun, running, results, valid_data, outcome, calls>>
  /\ UNCHANGED not_filter_vars

\* One turn of the for loop: the coroutine of the next item is appended to
\* tasks; a full batch is gathered.
AppendTask ==
  /\ f_pc = "loop"
  /\ idx < Len(data)
  /\ idx' = idx + 1
  /\ tasks' = Append(tasks, idx + 1)
  /\ f_pc' = IF Len(tasks') >= batch_size THEN "gather" ELSE "loop"
  /\ UNCHANGED <<data, batch_size, begun, running, results, valid_data, outcome, calls>>
  /\ UNCHANGED not_filter_vars

\* The for loop is over: the rest of the tasks, if any, is gathered.
LoopEnd ==
  /\ f_pc = "loop"
  /\ idx = Len(data)
  /\ f_pc' = IF tasks # <<>> THEN "gather" ELSE "return"
  /\ UNCHANGED <<data, batch_size, idx, tasks, begun, running, results, valid_data,
                 outcome, calls>>
  /\ UNCHANGED not_filter_vars

\* asyncio.gather(*tasks): the coroutines become tasks of the event loop.
Gather ==
  /\ f_pc = "gather"
  /\ begun' = {}
  /\ running' = {}
  /\ results' = [k \in 1..Len(tasks) |-> Pending]
  /\ f_pc' = "await"
  /\ UNCHANGED <<data, batch_size, idx, tasks, valid_data, outcome, calls>>
  /\ UNCHANGED not_filter_vars

\* A task of the gather is finished with the result r.
Finish(k, o) ==
  LET r == FetchResult(o)
  IN /\ outcome' = [outcome EXCEPT ![tasks[k]] = o]
     /\ IF r = Raise
          THEN f_pc' = "aborted" /\ UNCHANGED results
          ELSE results' = [results EXCEPT ![k] = r] /\ UNCHANGED f_pc

\* fetch_status begins, the tasks in the order of the list: an item without
\* ITEM_SEQ returns at once, for any other the request is sent.
FetchBegin ==
  /\ f_pc = "await"
  /\ \E k \in 1..Len(tasks) :
       /\ k \notin begun
       /\ \A j \in 1..(k - 1) : j \in begun
       /\ begun' = begun \cup {k}
       /\ calls' = [calls EXCEPT ![tasks[k]] = @ + 1]
       /\ IF data[tasks[k]] = "noseq"
            THEN Finish(k, "ITEM_SEQ_MISSING") /\ UNCHANGED running
            ELSE running' = running \cup {k} /\ UNCHANGED <<results, outcome, f_pc>>
  /\ UNCHANGED <<data, batch_size, idx, tasks, valid_data>>
  /\ UNCHANGED not_filter_vars

\* A request in flight ends with an answer of the page.
FetchAnswer ==
  /\ f_pc = "await"
  /\ \E k \in running, o \in Answers :
       /\ running' = running \ {k}
       /\ Finish(k, o)
  /\ UNCHANGED <<data, batch_size, idx, tasks, begun, valid_data, calls>>
  /\ UNCHANGED not_filter_vars

\* A request in flight times out or fails in the network.
FetchFailure ==
  /\ f_pc = "await"
  /\ \E k \in running, o \in Failures :
       /\ running' = running \ {k}
       /\ Finish(k, o)
  /\ UNCHANGED <<data, batch_size, idx, tasks, begun, valid_data, calls>>
  /\ UNCHANGED not_filter_vars

\* [item for item, is_valid, _ in results if is_valid]
RECURSIVE ValidOf(_, _)
ValidOf(ts, rs) ==
  IF ts = <<>> THEN <<>>
  ELSE (IF Head(rs).is_valid THEN <<Head(ts)>> ELSE <<>>) \o ValidOf(Tail(ts), Tail(rs))

\* The gather returns once every task has returned: valid_data is
\* extended, tasks emptied; the loop goes on, or the function is at its end.
GatherDone ==
  /\ f_pc = "await"
  /\ \A k \in 1..Len(tasks) : results[k] # Pending
  /\ valid_data' = valid_data \o ValidOf(tasks, results)
  /\ tasks' = <<>>
  /\ f_pc' = IF Len(tasks) >= batch_size THEN "loop" ELSE "return"
  /\ UNCHANGED <<data, batch_size, idx, begun, running, results, outcome, calls>>
  /\ UNCHANGED not_filter_vars

\* return valid_data
FilterReturn ==
  /\ f_pc = "return"
  /\ f_pc' = "done"
  /\ UNCHANGED <<data, batch_size, idx, tasks, begun, running, results, valid_data,
                 outcome, calls>>
  /\ UNCHANGED not_filter_vars

FilterNext ==
  \/ FilterCall
  \/ AppendTask
  \/ LoopEnd
  \/ Gather
  \/ FetchBegin
  \/ FetchAnswer
  \/ FetchFailure
  \/ GatherDone
  \/ FilterReturn

FilterSpec == FilterInit /\ [][FilterNext]_vars

\* The event loop runs every task that can run, and session.get's timeout
\* ends every request: a step that can be taken is taken.
FilterFairSpec == FilterSpec /\ WF_vars(FilterNext)


(***************************************************************************)
(* drug_data_merger.py: validation and merge of the two record sets.       *)
(*                                                                         *)
(* A Python value is a record of its type, its characters (a str) and its  *)
(* number (an int or a bool); a dict is a function on the keys it has.     *)
(***************************************************************************)
PyNone     == [type |-> "NoneType", chars |-> <<>>, n |-> 0]
PyStr(cs)  == [type |-> "str", chars |-> cs, n |-> 0]
PyInt(k)   == [type |-> "int", chars |-> <<>>, n |-> k]
PyTrue     == [type |-> "bool", chars |-> <<>>, n |-> 1]

\* bool(v): None, '' and 0 are false.
Truthy(v) ==
  CASE v.type = "str" -> v.chars # <<>>
    [] v.type \in {"int", "bool"} -> v.n # 0
    [] OTHER -> FALSE

\* str(v): an int is written in decimal digits.
RECURSIVE Digits(_)
Digits(k) ==
  LET d == <<"0", "1", "2", "3", "4", "5", "6", "7", "8", "9">>
  IN  IF k < 10 THEN <<d[k + 1]>> ELSE Digits(k \div 10) \o <<d[(k % 10) + 1]>>

Str(v) ==
  CASE v.type = "str" -> v.chars
    [] v.type = "int" -> Digits(v.n)
    [] v.type = "bool" -> IF v.n = 1 THEN <<"True">> ELSE <<"False">>
    [] OTHER -> <<"None">>

\* d.get(k, default), and {**d, **e}.
Get(d, k, default) == IF k \in DOMAIN d THEN d[k] ELSE default
Update(d, e) ==
  [k \in DOMAIN d \cup DOMAIN e |-> IF k \in DOMAIN e THEN e[k] ELSE d[k]]

\* a or b.
Or(a, b) == IF Truthy(a) THEN a ELSE b

StandardFields == {"ITEM_NAME", "ENTP_NAME", "CHART"}

\* Line 101 without the conversion to str.
ItemSeqOf_Raw(item) == item["ITEM_SEQ"]

\* Line 101: the ITEM_SEQ as a string.
ItemSeqOf(item) == PyStr(Str(item["ITEM_SEQ"]))

\* Lines 111-117: the record kept for an item.  .strip() exists on a str
\* only: Stripable says that none of the three calls raises.
Stripable(item) ==
  \A k \in StandardFields : Get(item, k, PyStr(<<>>)).type = "str"
ProcessedItem(item) ==
  Update(item,
         [k \in {"ITEM_SEQ"} \cup StandardFields |->
            IF k = "ITEM_SEQ" THEN ItemSeqOf(item)
            ELSE PyStr(Strip(Get(item, k, PyStr(<<>>)).chars))])

\* Lines 94-119: the loop over data_list, from item i on.
RECURSIVE ValidateLoop(_, _, _, _)
ValidateLoop(list, i, seen_item_seqs, processed_data) ==
  IF i > Len(list) THEN [raised |-> FALSE, list |-> processed_data]
  ELSE LET item == list[i] IN
    IF "ITEM_SEQ" \notin DOMAIN item \/ ~Truthy(item["ITEM_SEQ"])
    THEN ValidateLoop(list, i + 1, seen_item_seqs, processed_data)
    ELSE IF ItemSeqOf(item) \in seen_item_seqs
    THEN ValidateLoop(list, i + 1, seen_item_seqs, processed_data)
    ELSE IF ~Stripable(item) THEN [raised |-> TRUE, list |-> <<>>]
    ELSE ValidateLoop(list, i + 1, seen_item_seqs \cup {ItemSeqOf(item)},
                      Append(processed_data, ProcessedItem(item)))

validate_and_preprocess_data(list) ==
  IF list = <<>> THEN [raised |-> FALSE, list |-> <<>>]
  ELSE ValidateLoop(list, 1, {}, <<>>)

\* Line 144: the dict approval_map.  Its keys stand in the order of their
\* first item; the item of a key is the last one that has it.
RECURSIVE DictKeys(_, _)
DictKeys(list, keys) ==
  IF list = <<>> THEN keys
  ELSE LET k == Head(list)["ITEM_SEQ"] IN
       DictKeys(Tail(list),
                IF \E i \in 1..Len(keys) : keys[i] = k THEN keys
                ELSE Append(keys, k))

ApprovalMap(list) ==
  [keys |-> DictKeys(list, <<>>),
   at   |-> [k \in {list[i]["ITEM_SEQ"] : i \in 1..Len(list)} |->
               list[CHOOSE i \in 1..Len(list) :
                      /\ list[i]["ITEM_SEQ"] = k
                      /\ \A j \in (i + 1)..Len(list) : list[j]["ITEM_SEQ"] # k]]]

\* Lines 158-170: the merged record of a pill and its approval.
MergedData(approval_item, pill) ==
  Update(Update(approval_item, pill),
         [k \in StandardFields \cup {"_source", "_matchType"} |->
            CASE k = "_source" -> PyStr(<<"both">>)
              [] k = "_matchType" -> PyStr(<<"exact_match_by_ITEM_SEQ">>)
              [] OTHER -> Or(Get(approval_item, k, PyNone),
                             Get(pill, k, PyStr(<<>>)))])

\* Lines 176-177: the marks of a pill without approval.
PillOnly(pill) ==
  Update(pill, [k \in {"_needsAdditionalInfo", "_source"} |->
                  IF k = "_source" THEN PyStr(<<"pill_only">>) ELSE PyTrue])

\* Lines 150-178: the loop over pill_data, from pill i on.
RECURSIVE MergePills(_, _, _, _)
MergePills(approval_map, pills, i, acc) ==
  IF i > Len(pills) THEN acc
  ELSE LET pill     == pills[i]
           item_seq == pill["ITEM_SEQ"]
       IN  IF item_seq \in DOMAIN approval_map.at
           THEN MergePills(approval_map, pills, i + 1,
                  [acc EXCEPT
                     !.merged = Append(@, MergedData(approval_map.at[item_seq], pill)),
                     !.processed_approvals = @ \cup {item_seq}])
           ELSE MergePills(approval_map, pills, i + 1,
                  [acc EXCEPT !.unmatchedPills = Append(@, PillOnly(pill))])

\* Lines 181-184 without the test of processed_approvals.
UnmatchedApprovals_All(approval_map, processed_approvals) ==
  [i \in 1..Len(approval_map.keys) |->
     Update(approval_map.at[approval_map.keys[i]],
            [k \in {"_source"} |-> PyStr(<<"approval_only">>)])]

\* Lines 181-184: the approvals no pill has matched, in the order of the map.
UnmatchedApprovals(approval_map, processed_approvals) ==
  LET left == SelectSeq(approval_map.keys,
                        LAMBDA k : k \notin processed_approvals)
  IN  [i \in 1..Len(left) |->
         Update(approval_map.at[left[i]],
                [k \in {"_source"} |-> PyStr(<<"approval_only">>)])]

merge_drug_data(approvals, pills) ==
  LET approval_map == ApprovalMap(approvals)
      acc == MergePills(approval_map, pills, 1,
                        [merged |-> <<>>, unmatchedPills |-> <<>>,
                         processed_approvals |-> {}])
  IN  [merged |-> acc.merged,
       unmatchedPills |-> acc.unmatchedPills,
       unmatchedApprovals |->
         UnmatchedApprovals(approval_map, acc.processed_approvals)]

\* Lines 199-217.  matchRate is the rate in hundredths of a percent, as the
\* two decimals of "{:.2f}" round it; actionNeeded is one of two sentences.
analyze_results(r) ==
  LET merged_count == Len(r.merged)
      unmatched_pills_count == Len(r.unmatchedPills)
      unmatched_approvals_count == Len(r.unmatchedApprovals)
      total_items == merged_count + unmatched_pills_count
                       + unmatched_approvals_count
  IN  [totalItems |-> total_items,
       totalMerged |-> merged_count,
       totalUnmatchedPills |-> unmatched_pills_count,
       totalUnmatchedApprovals |-> unmatched_approvals_count,
       matchRate |-> IF total_items > 0
                     THEN (2 * 10000 * merged_count + total_items)
                            \div (2 * total_items)
                     ELSE 0,
       actionNeeded |-> IF unmatched_pills_count > 0 THEN "INPUT_NEEDED"
                        ELSE "ALL_MATCHED"]

\* The records of a loaded file.  The ITEM_SEQ is a number or a string and
\* the ITEM_NAME is missing, null or a string; or the ITEM_SEQ is missing,
\* null, empty or zero, beside a null ITEM_NAME.
RawRecords ==
  {[k \in D |-> IF k = "ITEM_SEQ" THEN s ELSE nm] :
     D \in {{"ITEM_SEQ"}, {"ITEM_SEQ", "ITEM_NAME"}},
     s \in {PyInt(1), PyStr(<<"1">>), PyInt(12)},
     nm \in {PyNone, PyStr(<<"A">>), PyStr(<<SP, "B">>)}}
  \cup
  {[k \in D |-> IF k = "ITEM_SEQ" THEN s ELSE PyNone] :
     D \in {{"ITEM_NAME"}, {"ITEM_SEQ", "ITEM_NAME"}},
     s \in {PyNone, PyStr(<<>>), PyInt(0)}}

\* The records merge_drug_data is given: preprocessed approvals and pills,
\* with or without the field ETC_OTC_NAME that both feeds have.
ApprovalRecords ==
  {[k \in D |-> CASE k = "ITEM_SEQ" -> PyStr(<<s>>)
                  [] k = "ITEM_NAME" -> nm
                  [] k = "ETC_OTC_NAME" -> PyStr(<<"ETC">>)
                  [] OTHER -> PyStr(<<"36">>)] :
     D \in {{"ITEM_SEQ", "ITEM_NAME", "VALID_TERM"},
            {"ITEM_SEQ", "ITEM_NAME", "VALID_TERM", "ETC_OTC_NAME"}},
     s \in {"1", "2"}, nm \in {PyStr(<<>>), PyStr(<<"A">>)}}
PillRecords ==
  {[k \in D |-> CASE k = "ITEM_SEQ" -> PyStr(<<s>>)
                  [] k = "ITEM_NAME" -> PyStr(<<"P">>)
                  [] k = "ETC_OTC_NAME" -> PyStr(<<"OTC">>)
                  [] OTHER -> PyStr(<<"round">>)] :
     D \in {{"ITEM_SEQ", "ITEM_NAME", "DRUG_SHAPE"},
            {"ITEM_SEQ", "ITEM_NAME", "DRUG_SHAPE", "ETC_OTC_NAME"}},
     s \in {"2", "3"}}

MergeInit == ParseIdle /\ FilterIdle /\ MergeIdle /\ CollectIdle

\* validate_and_preprocess_data is called.
ValidateCall ==
  /\ m_pc = "idle"
  /\ \E list \in SeqsUpTo(RawRecords, MaxRecords) : data_list' = list
  /\ m_pc' = "validate"
  /\ UNCHANGED <<processed, approval_data, pill_data, merge_result, analysis>>
  /\ UNCHANGED not_merge_vars

\* It returns its list, or the exception of a .strip() leaves it.
ValidateReturn ==
  /\ m_pc = "validate"
  /\ processed' = validate_and_preprocess_data(data_list)
  /\ m_pc' = IF processed'.raised THEN "raised" ELSE "validated"
  /\ UNCHANGED <<data_list, approval_data, pill_data, merge_result, analysis>>
  /\ UNCHANGED not_merge_vars

\* merge_drug_data is called.
MergeCall ==
  /\ m_pc = "idle"
  /\ \E approvals \in SeqsUpTo(ApprovalRecords, MaxApprovals),
        pills \in SeqsUpTo(PillRecords, MaxPills) :
       /\ approval_data' = approvals
       /\ pill_data' = pills
  /\ m_pc' = "merge"
  /\ UNCHANGED <<data_list, processed, merge_result, analysis>>
  /\ UNCHANGED not_merge_vars

MergeReturn ==
  /\ m_pc = "merge"
  /\ merge_result' = merge_drug_data(approval_data, pill_data)
  /\ m_pc' = "merged"
  /\ UNCHANGED <<data_list, processed, approval_data, pill_data, analysis>>
  /\ UNCHANGED not_merge_vars

\* analyze_results is applied to the result of the merge.
Analyze ==
  /\ m_pc = "merged"
  /\ analysis' = analyze_results(merge_result)
  /\ m_pc' = "analyzed"
  /\ UNCHANGED <<data_list, processed, approval_data, pill_data, merge_result>>
  /\ UNCHANGED not_merge_vars

MergeNext ==
  \/ ValidateCall
  \/ ValidateReturn
  \/ MergeCall
  \/ MergeReturn
  \/ Analyze

MergeSpec == MergeInit /\ [][MergeNext]_vars


(***************************************************************************)
(* fetch_all_drug_approval_data.py: the paginated collection.              *)
(*                                                                         *)
(* The source is a list of items cut into pages of PageSize; a page after  *)
(* the last one has no items.  The items carry no XML document, so the     *)
(* parse of lines 506-519, whose exceptions are all caught there, has      *)
(* nothing to do.                                                          *)
(***************************************************************************)
max_retries == 3
\* "(수출용)", the mark of an export item in its name.
EXPORT == "(export)"

REQUIRED_FIELDS ==
  {"ITEM_SEQ", "ITEM_NAME", "ENTP_NAME", "ETC_OTC_CODE", "ETC_OTC_NAME",
   "CHART", "EE_DOC_DATA", "UD_DOC_DATA", "NB_DOC_DATA", "STORAGE_METHOD",
   "VALID_TERM", "CANCEL_DATE"}

\* The items of the source: two that are kept, a cancelled one, an export
\* one, and one whose ITEM_NAME is null.
FeedItems ==
  {[ITEM_SEQ |-> PyStr(<<t[1]>>), ITEM_NAME |-> t[2], CANCEL_DATE |-> t[3]] :
     t \in {<<"1", PyStr(<<"N">>), PyStr(<<>>)>>,
            <<"2", PyStr(<<"N">>), PyStr(<<>>)>>,
            <<"1", PyStr(<<"N">>), PyStr(<<"20200101">>)>>,
            <<"2", PyStr(<<"N", EXPORT>>), PyStr(<<>>)>>,
            <<"2", PyNone, PyStr(<<>>)>>}}

\* data["body"]["items"] of the answer to the request of page p.
PageItems(f, p) ==
  LET first == (p - 1) * PageSize + 1
      last  == IF p * PageSize < Len(f) THEN p * PageSize ELSE Len(f)
  IN  IF first > Len(f) THEN <<>> ELSE SubSeq(f, first, last)

\* Lines 459-467: a page as long as the one before, all of whose ITEM_SEQ
\* are seen.
AllSeen(items, last, seen) ==
  /\ Len(items) = last
  /\ last > 0
  /\ {Get(items[i], "ITEM_SEQ", PyStr(<<>>)) : i \in 1..Len(items)} \subseteq seen

\* Lines 497-503: the record of an item.
FilteredItem(item) ==
  LET filtered_item == [key \in REQUIRED_FIELDS |-> Get(item, key, PyStr(<<>>))]
  IN  IF Truthy(filtered_item["ETC_OTC_CODE"])
           /\ ~Truthy(filtered_item["ETC_OTC_NAME"])
      THEN [filtered_item EXCEPT !["ETC_OTC_NAME"] = filtered_item["ETC_OTC_CODE"]]
      ELSE filtered_item

\* Line 481 without the test of CANCEL_DATE.
IsCancelled_Never(item) == FALSE

\* Line 481: the item has a CANCEL_DATE.
IsCancelled(item) == Truthy(Get(item, "CANCEL_DATE", PyNone))

\* Lines 473-521: the loop over the items of a page, from item i on.  The
\* test of line 488 raises TypeError on a name that is no string.
RECURSIVE ItemsLoop(_, _, _)
ItemsLoop(items, i, acc) ==
  IF i > Len(items) THEN acc
  ELSE LET item      == items[i]
           item_seq  == Get(item, "ITEM_SEQ", PyStr(<<>>))
           item_name == Get(item, "ITEM_NAME", PyStr(<<>>))
       IN  IF item_seq \in acc.seen THEN ItemsLoop(items, i + 1, acc)
           ELSE IF IsCancelled(item)
           THEN ItemsLoop(items, i + 1,
                          [acc EXCEPT !.canceled = @ + 1])
           ELSE IF item_name.type # "str" THEN [acc EXCEPT !.raised = TRUE]
           ELSE IF \E j \in 1..Len(item_name.chars) : item_name.chars[j] = EXPORT
           THEN ItemsLoop(items, i + 1, [acc EXCEPT !.export = @ + 1])
           ELSE ItemsLoop(items, i + 1,
                          [acc EXCEPT
                             !.seen = @ \cup {item_seq},
                             !.new_item_count = @ + 1,
                             !.processed_items = Append(@, FilteredItem(item))])

\* Line 535: the pages the totalCount stands for.
EstimatedPages(count) == (count + PageSize - 1) \div PageSize

CollectInit == ParseIdle /\ FilterIdle /\ MergeIdle /\ CollectIdle

\* fetch_drug_approval_data is called (lines 365-374), on some source.
CollectCall ==
  /\ c_pc = "idle"
  /\ \E f \in SeqsUpTo(FeedItems, MaxFeed) :
       /\ feed' = f
       /\ total_count' \in {0, Len(f)}
  /\ page_no' = 1
  /\ total_data' = <<>>
  /\ last_page_items' = -1
  /\ seen_item_sequences' = {}
  /\ filtered_canceled_count' = 0
  /\ filtered_export_count' = 0
  /\ c_pc' = "page"
  /\ UNCHANGED <<retries, success, requests, failed>>
  /\ UNCHANGED not_collect_vars

\* Lines 376-389: a turn of the outer loop begins.
PageBegin ==
  /\ c_pc = "page"
  /\ retries' = 0
  /\ success' = FALSE
  /\ requests' = 0
  /\ c_pc' = "attempt"
  /\ UNCHANGED <<feed, total_count, page_no, total_data, last_page_items,
                 seen_item_sequences, filtered_canceled_count,
                 filtered_export_count, failed>>
  /\ UNCHANGED not_collect_vars

\* The ways a request fails: a status other than 200 (396), a body that is
\* no JSON (413), an unexpected structure (446), a RequestException (551),
\* any other exception (559).
FailureKinds == {"status", "json", "structure", "RequestException", "Exception"}

\* A failed attempt that does not count.
AttemptFails_NoCount ==
  /\ c_pc = "attempt"
  /\ retries < max_retries /\ ~success
  /\ \E kind \in FailureKinds :
       c_pc' = IF retries + 1 < max_retries THEN "attempt"
               ELSE IF kind = "Exception" THEN "done" ELSE "after_loop"
  /\ requests' = requests + 1
  /\ failed' = TRUE
  /\ UNCHANGED <<feed, total_count, page_no, total_data, last_page_items,
                 seen_item_sequences, filtered_canceled_count,
                 filtered_export_count, success, retries>>
  /\ UNCHANGED not_collect_vars

\* An attempt fails: retries grows; below max_retries the loop goes on,
\* else it is left by break, or by the return of line 567.
AttemptFails ==
  /\ c_pc = "attempt"
  /\ retries < max_retries /\ ~success
  /\ \E kind \in FailureKinds :
       c_pc' = IF retries + 1 < max_retries THEN "attempt"
               ELSE IF kind = "Exception" THEN "done" ELSE "after_loop"
  /\ retries' = retries + 1
  /\ requests' = requests + 1
  /\ failed' = TRUE
  /\ UNCHANGED <<feed, total_count, page_no, total_data, last_page_items,
                 seen_item_sequences, filtered_canceled_count,
                 filtered_export_count, success>>
  /\ UNCHANGED not_collect_vars

\* The request is answered with the page of the source (lines 393-549).
AttemptAnswers ==
  /\ c_pc = "attempt"
  /\ retries < max_retries /\ ~success
  /\ requests' = requests + 1
  /\ LET items == PageItems(feed, page_no)
         acc   == ItemsLoop(items, 1,
                    [raised |-> FALSE, seen |-> seen_item_sequences,
                     new_item_count |-> 0, processed_items |-> <<>>,
                     canceled |-> filtered_canceled_count,
                     export |-> filtered_export_count])
     IN  IF items = <<>>
              \/ AllSeen(items, last_page_items, seen_item_sequences)
         THEN \* break of line 433 or 467
              /\ c_pc' = "after_loop"
              /\ UNCHANGED <<total_data, last_page_items, seen_item_sequences,
                             filtered_canceled_count, filtered_export_count,
                             retries, success, failed>>
         ELSE /\ seen_item_sequences' = acc.seen
              /\ filtered_canceled_count' = acc.canceled
              /\ filtered_export_count' = acc.export
              /\ IF acc.raised
                 THEN \* the handler of line 559
                      /\ retries' = retries + 1
                      /\ failed' = TRUE
                      /\ c_pc' = IF retries + 1 < max_retries THEN "attempt"
                                 ELSE "done"
                      /\ UNCHANGED <<total_data, last_page_items, success>>
                 ELSE IF acc.new_item_count = 0
                 THEN \* break of line 526
                      /\ c_pc' = "after_loop"
                      /\ UNCHANGED <<total_data, last_page_items, retries,
                                     success, failed>>
                 ELSE /\ total_data' = total_data \o acc.processed_items
                      /\ IF \/ total_count > 0
                               /\ page_no >= EstimatedPages(total_count)
                            \/ Len(items) < PageSize
                         THEN \* break of line 540 or 545
                              /\ c_pc' = "after_loop"
                              /\ UNCHANGED <<last_page_items, success>>
                         ELSE /\ success' = TRUE
                              /\ last_page_items' = Len(items)
                              /\ c_pc' = "attempt"
                      /\ UNCHANGED <<retries, failed>>
  /\ UNCHANGED <<feed, total_count, page_no>>
  /\ UNCHANGED not_collect_vars

\* Line 391: the condition of the inner loop is false.
LoopExit ==
  /\ c_pc = "attempt"
  /\ ~(retries < max_retries /\ ~success)
  /\ c_pc' = "after_loop"
  /\ UNCHANGED <<feed, total_count, page_no, total_data, last_page_items,
                 seen_item_sequences, filtered_canceled_count,
                 filtered_export_count, retries, success, requests, failed>>
  /\ UNCHANGED not_collect_vars

\* Lines 570-578: without success the function returns total_data, else
\* the next page follows.
AfterLoop ==
  /\ c_pc = "after_loop"
  /\ IF ~success
     THEN c_pc' = "done" /\ page_no' = page_no
     ELSE c_pc' = "page" /\ page_no' = page_no + 1
  /\ UNCHANGED <<feed, total_count, total_data, last_page_items,
                 seen_item_sequences, filtered_canceled_count,
                 filtered_export_count, retries, success, requests, failed>>
  /\ UNCHANGED not_collect_vars

CollectNext ==
  \/ CollectCall
  \/ PageBegin
  \/ AttemptFails
  \/ AttemptAnswers
  \/ LoopExit
  \/ AfterLoop

CollectSpec == CollectInit /\ [][CollectNext]_vars

\* The function is sequential; requests.get has a timeout and time.sleep
\* returns: a step that can be taken is taken.
CollectFairSpec == CollectSpec /\ WF_vars(CollectNext)


(***************************************************************************)
(* The claims.                                                             *)
(***************************************************************************)
TokensOf(s) == {s[i] : i \in 1..Len(s)}
Returned    == pc = "done"
IsEmptyField(v) == v.none \/ v.str = <<>>

\* C1: parse_xml_doc cannot throw.  Whichever stage raises, the exception is
\* caught inside the call: no state has an exception escaping to the caller,
\* and a call that raised internally is inside one of its handlers, at a
\* later stage, or has returned a value (None or a document record).
C1_NeverThrows ==
  /\ pc # "raised"
  /\ (pc = "done" => result # Pending)
  /\ (faulted => pc \in {"outer_except", "salvage", "plain", "last_resort",
                         "last_error", "done"})

\* C1 witness: every stage of the chain raised (sanitizer passed, the two
\* parses failed, the salvage and its last resort raised) and the call
\* still returned a record.
C1_Witness ==
  /\ pc = "done"
  /\ faulted
  /\ tier = "last_error"
  /\ trace = <<"sanitizer", "structured", "tag_repair", "salvage", "last_resort">>
  /\ result = LastErrorDoc

\* The docType the specification names for the stage that built a result.
DocTypeOf(t) ==
  CASE t = "structured" -> "structured"
    [] t = "recovered" -> "recovered"
    [] t = "salvaged" -> "salvaged"
    [] t \in {"plain_text", "raw_text"} -> "raw_text"
    [] OTHER -> "error"

\* The first token of a string that is not white space ("" when none).
FirstTag(s) ==
  LET i == IndexFrom(s, 1, {t \in TokensOf(s) : t \notin WhiteSpace})
  IN IF i = 0 THEN "" ELSE s[i]

\* The earliest tier that succeeds on a string when no stage raises.
EarliestTier(s) ==
  LET a == Sanitize(s)
      b == Repair(a)
      c == SalvagePrepare(b)
  IN IF ~IsParseError(ET_fromstring(a)) THEN "structured"
     ELSE IF ~IsParseError(ET_fromstring(b)) THEN "recovered"
     ELSE IF SalvageText(c) # Header(DocTitle(c)) THEN "salvaged"
     ELSE "plain_text"

NonBlank(v) == ~v.none /\ \E i \in 1..Len(v.str) : v.str[i] \notin WhiteSpace

\* C3 as stated: for a non-empty, non-whitespace input the text of the
\* returned document is not empty.
C3_TextNonEmpty ==
  (Returned /\ NonBlank(input)) => (result # NoneResult /\ result.text # <<>>)

\* C4: an absent or empty field returns None at once: no stage is entered,
\* nothing raises, and the value is not an error record.
C4_EmptyShortCircuits ==
  IsEmptyField(input) =>
    /\ pc \in {"idle", "done"}
    /\ trace = <<>>
    /\ ~faulted
    /\ (pc = "done" => result = NoneResult /\ tier = "none")

\* C4 witness: the empty string was passed and None came back.
C4_Witness ==
  /\ Returned
  /\ ~input.none /\ input.str = <<>>
  /\ result = NoneResult
  /\ trace = <<>>

\* C5 as stated: the sanitizer applied to its own output changes nothing.
C5_SanitizerIdempotent ==
  (pc = "parse1" /\ ~faulted) =>
    (xml_string = Sanitize(input.str) /\ Sanitize(xml_string) = xml_string)

\* A document nested as DOC / SECTION / ARTICLE / PARAGRAPH, every tag closed
\* in its place, whose paragraphs hold tokens of body only.  d is the depth
\* at token i (5 once the root is closed).
RECURSIVE Nested(_, _, _, _)
Nested(s, i, d, body) ==
  IF i > Len(s) THEN d = 5
  ELSE LET t == s[i]
       IN CASE d = 0 -> t \in RootTags /\ Nested(s, i + 1, 1, body)
            [] d = 1 -> \/ t \in SectionTags /\ Nested(s, i + 1, 2, body)
                        \/ t = "</DOC>" /\ Nested(s, i + 1, 5, body)
            [] d = 2 -> \/ t \in ArticleTags /\ Nested(s, i + 1, 3, body)
                        \/ t = "</SECTION>" /\ Nested(s, i + 1, 1, body)
            [] d = 3 -> \/ t = "<PARAGRAPH>" /\ Nested(s, i + 1, 4, body)
                        \/ t = "</ARTICLE>" /\ Nested(s, i + 1, 2, body)
            [] d = 4 -> \/ t \in body /\ Nested(s, i + 1, 4, body)
                        \/ t = "</PARAGRAPH>" /\ Nested(s, i + 1, 3, body)
            [] OTHER -> FALSE

\* A well-formed document whose paragraphs hold letters only.
Canonical(s) == Nested(s, 1, 0, Letters)

\* The article titles and non-empty paragraphs of a canonical document as
\* rendered lines, in the order of their tokens in the source.
RECURSIVE SourceItems(_, _)
SourceItems(s, i) ==
  IF i > Len(s) THEN <<>>
  ELSE IF s[i] \in ArticleTags /\ TitleAttr(s[i]) # ""
    THEN <<(<<NL, SQUARE, TitleAttr(s[i])>>)>> \o SourceItems(s, i + 1)
  ELSE IF s[i] = "<PARAGRAPH>"
    THEN LET j == IndexFrom(s, i + 1, {"</PARAGRAPH>"})
             b == SubSeq(s, i + 1, j - 1)
         IN (IF b # <<>> THEN <<(<<DASH>> \o b)>> ELSE <<>>) \o SourceItems(s, j + 1)
  ELSE SourceItems(s, i + 1)

SourceTitleLine(s) ==
  IF TitleAttr(s[1]) # "" THEN <<(<<LBR, TitleAttr(s[1]), RBR>>)>> ELSE <<>>

\* C6: order preservation.  For a well-formed document the sections, their
\* articles and their paragraphs are kept in `sections`, and rendered in
\* `text`, in the order of the source: the items of `sections` and the lines
\* of `text` are the source's titles and paragraphs in token order, so all
\* of an earlier section comes before anything of a later one.
C6_SourceOrder ==
  (Returned /\ ~faulted /\ Canonical(input.str)) =>
    /\ tier = "structured"
    /\ SectionLines(result.sections) = SourceItems(input.str, 1)
    /\ result.text = Join(SourceTitleLine(input.str) \o SourceItems(input.str, 1))

\* C6 witness: two sections were kept, the first with a paragraph, and the
\* text was rendered from them.
C6_Witness ==
  /\ Returned /\ ~faulted /\ Canonical(input.str)
  /\ tier = "structured"
  /\ Len(result.sections) = 2
  /\ result.sections[1].articles[1].paragraphs # <<>>
  /\ result.sections[1].articles # result.sections[2].articles

Count(s, t) == Cardinality({i \in 1..Len(s) : s[i] = t})

RECURSIVE AllArticles(_)
AllArticles(ss) ==
  IF ss = <<>> THEN <<>> ELSE Head(ss).articles \o AllArticles(Tail(ss))

RECURSIVE SumParagraphs(_)
SumParagraphs(as) ==
  IF as = <<>> THEN 0 ELSE Len(Head(as).paragraphs) + SumParagraphs(Tail(as))

\* The ARTICLE tags of a canonical document that have a title or a
\* non-empty paragraph.
SourceKept(s) ==
  {i \in 1..Len(s) :
     /\ s[i] \in ArticleTags
     /\ \/ TitleAttr(s[i]) # ""
        \/ \E j \in (i + 1)..Len(s) :
             /\ s[j] \in Letters
             /\ \A k \in i..j : s[k] # "</ARTICLE>"}

\* C7: structural dropping.  In a document of the structured or the
\* tag-repair tier every retained section has an article, every retained
\* article has a title or a paragraph, every retained paragraph has text;
\* the text has one title line per titled article and one bullet per
\* retained paragraph, nothing else; and of a well-formed document exactly
\* the articles with a title or a non-empty paragraph are retained.
C7_NoEmptyNodes ==
  (Returned /\ tier \in {"structured", "recovered"}) =>
    LET as == AllArticles(result.sections)
    IN /\ \A i \in 1..Len(result.sections) : result.sections[i].articles # <<>>
       /\ \A j \in 1..Len(as) :
            /\ as[j].title # "" \/ as[j].paragraphs # <<>>
            /\ \A k \in 1..Len(as[j].paragraphs) : as[j].paragraphs[k] # <<>>
       /\ Count(result.text, SQUARE) = Cardinality({j \in 1..Len(as) : as[j].title # ""})
       /\ Count(result.text, DASH) = SumParagraphs(as)
       /\ (Canonical(input.str) => Len(as) = Cardinality(SourceKept(input.str)))

\* C7 witness: a well-formed document had an article with neither title nor
\* text next to one that was kept.
C7_Witness ==
  /\ Returned /\ ~faulted /\ Canonical(input.str)
  /\ tier = "structured"
  /\ result.sections # <<>>
  /\ Len(AllArticles(result.sections)) < Cardinality({i \in 1..Len(input.str) : input.str[i] \in ArticleTags})

\* C8 as stated: every record of type error carries an error message and a
\* copy of the input.
C8_ErrorRecordComplete ==
  (Returned /\ result # NoneResult /\ result.type = "error") =>
    ("error" \in DOMAIN result /\ "raw" \in DOMAIN result)

\* A document well-formed but for a bare ampersand in the text of a
\* paragraph, outside every CDATA block.
BareAmpDoc(s) ==
  /\ Nested(s, 1, 0, {"x", "y", SP, AMP, "amp;", CDO, CDC})
  /\ IsParseError(ET_fromstring(s))
  /\ ~IsParseError(ET_fromstring(EscapeAmp(s)))

LastArticle(d, i) ==
  CHOOSE j \in 1..i : d[j] \in ArticleTags /\ \A k \in (j + 1)..i : d[k] \notin ArticleTags
MissingArticleClose ==
  UNION {{RemoveAt(d, i) : i \in {k \in 1..Len(d) :
                                     /\ d[k] = "</ARTICLE>"
                                     /\ TitleAttr(d[LastArticle(d, k)]) = "B"}} :
         d \in IntactDocs}

\* C10 as stated: for such a document the first parse fails, the tag repair
\* closes the tag, its re-parse succeeds, and the text has the title line of
\* B and B's paragraph.
C10_RepairClosesArticle ==
  (~faulted /\ input.str \in MissingArticleClose) =>
    /\ (pc = "parse2" => Count(xml_string, "</ARTICLE>") = Count(xml_string, "</PARAGRAPH>"))
    /\ (Returned =>
          /\ tier = "recovered"
          /\ \E i \in 1..(Len(result.text) - 1) :
               result.text[i] = SQUARE /\ result.text[i + 1] = "B")

\* Plain prose: no tag, no CDATA marker, more than ten characters.
Prose(s) ==
  /\ \A i \in 1..Len(s) : s[i] \in {"x", WORD, DOT, AMP} \cup WhiteSpace
  /\ StrLen(s) > MIN_SENTENCE

AllStages == <<"sanitizer", "structured", "tag_repair", "salvage", "plain_text">>

PcRank(p) ==
  CASE p = "idle" -> 0
    [] p = "sanitize" -> 1
    [] p = "parse1" -> 2
    [] p = "repair" -> 3
    [] p = "parse2" -> 4
    [] p = "salvage" -> 5
    [] p = "plain" -> 6
    [] p = "last_resort" -> 7
    [] p = "last_error" -> 8
    [] p = "outer_except" -> 9
    [] OTHER -> 10

\* The stages entered are the first stages of the fixed order, each once,
\* followed at most by the last resort of the salvage extractor.
TraceInOrder ==
  LET n == IF trace # <<>> /\ trace[Len(trace)] = "last_resort"
             THEN Len(trace) - 1 ELSE Len(trace)
  IN /\ n <= Len(AllStages)
     /\ SubSeq(trace, 1, n) = SubSeq(AllStages, 1, n)

\* What one step of a call may do to the program point.
StageOrder ==
  /\ PcRank(pc') > PcRank(pc)
  /\ (pc' = "sanitize" => pc = "idle")
  /\ (pc' = "parse1" => pc = "sanitize" /\ faulted' = faulted)
  /\ (pc' = "repair" =>
        pc = "parse1" /\ faulted' = faulted /\ IsParseError(ET_fromstring(xml_string)))
  /\ (pc' = "parse2" => pc = "repair" /\ faulted' = faulted)
  /\ (pc' = "salvage" =>
        \/ pc = "parse2" /\ faulted' = faulted /\ IsParseError(ET_fromstring(xml_string))
        \/ pc \in {"repair", "parse2"} /\ faulted' # faulted)
  /\ (pc' = "plain" =>
        /\ pc = "salvage" /\ faulted' = faulted
        /\ TitleParts(ArticleTitles(xml_string')) = <<>>
        /\ ContentParts(ParagraphContents(xml_string')) = <<>>)

\* C14: tier ordering.  Within one call the stages are entered in the order
\* sanitizer, structured parse, tag repair, salvage, plain-text fallback;
\* the tag repair starts only from a structured parse that raised
\* ParseError, the salvage only from a re-parse that raised ParseError or
\* from a tag repair that raised, the plain-text fallback only from a
\* salvage that recovered no title and no paragraph; no step goes back, so
\* each stage runs at most once and the parser at most twice.
C14_TierOrder == []TraceInOrder /\ [][StageOrder]_vars

\* C14 witness: one call went through all five stages, none of them raising.
C14_Witness ==
  /\ Returned /\ ~faulted
  /\ trace = AllStages
  /\ tier = "plain_text"

\* The names of the elements a string opens and never closes, outermost
\* first.
RECURSIVE Unclosed(_, _)
Unclosed(s, stack) ==
  IF s = <<>> THEN stack
  ELSE IF Head(s) \in OpenTags THEN Unclosed(Tail(s), Append(stack, TagName(Head(s))))
  ELSE IF Head(s) \in CloseTags /\ stack # <<>>
    THEN Unclosed(Tail(s), SubSeq(stack, 1, Len(stack) - 1))
  ELSE Unclosed(Tail(s), stack)

\* A document cut short inside k >= 1 open elements, with nothing else
\* wrong.
CutShort(s) ==
  /\ s \in TruncatedDocs
  /\ TokensOf(s) \cap {CDO, CDC, AMP} = {}
  /\ Unclosed(s, <<>>) # <<>>

\* C15 as stated: for a document cut short inside k open elements the tag
\* repair appends the k closing tags, innermost first, and the repaired
\* string is well-formed.
C15_RepairClosesAll ==
  (pc = "parse2" /\ ~faulted /\ CutShort(input.str)) =>
    /\ xml_string = AppendClosers(input.str, Unclosed(input.str, <<>>))
    /\ ~IsParseError(ET_fromstring(xml_string))

\* The tokens that follow a given marker in a text, in order.
RECURSIVE After(_, _)
After(s, mark) ==
  IF Len(s) < 2 THEN <<>>
  ELSE IF Head(s) = mark THEN <<s[2]>> \o After(Tail(s), mark)
  ELSE After(Tail(s), mark)

\* The titles of the titled ARTICLE tags of a string, in order.
RECURSIVE TitlesInOrder(_)
TitlesInOrder(s) ==
  IF s = <<>> THEN <<>>
  ELSE (IF Head(s) \in ArticleTags /\ TitleAttr(Head(s)) # ""
          THEN <<TitleAttr(Head(s))>> ELSE <<>>) \o TitlesInOrder(Tail(s))

\* C16: salvage rendering order.  The text of the regex salvage is the
\* title header, then one title line per titled ARTICLE tag in the order
\* of the tags, then one bullet per non-empty cleaned paragraph in the order
\* of the paragraphs; every title line stands before every bullet.
C16_TitlesBeforeParagraphs ==
  (Returned /\ tier = "salvaged") =>
    LET text  == result.text
        paras == ContentParts(ParagraphContents(xml_string))
    IN /\ IsPrefix(<<LBR, result.title, RBR>>, text)
       /\ After(text, SQUARE) = TitlesInOrder(xml_string)
       /\ Count(text, DASH) = Len(paras)
       /\ After(text, DASH) = [k \in 1..Len(paras) |-> paras[k][2]]
       /\ \A i, j \in 1..Len(text) : text[i] = SQUARE /\ text[j] = DASH => i < j
       /\ Len(text) > 3

\* C16 witness: two titles and a paragraph were salvaged from a document
\* in which the paragraph stands between the two titled tags.
C16_Witness ==
  /\ Returned /\ ~faulted /\ tier = "salvaged"
  /\ After(result.text, SQUARE) = <<"A", "B">>
  /\ Count(result.text, DASH) >= 1
  /\ \E i, j, k \in 1..Len(input.str) :
       /\ i < j /\ j < k
       /\ input.str[i] = "<ARTICLE title=\"A\">"
       /\ input.str[j] = "</PARAGRAPH>"
       /\ input.str[k] = "<ARTICLE title=\"B\">"

\* A run of bullets "\n- sentence." whose sentences, the appended full stop
\* apart, are longer than ten characters.
RECURSIVE LongBullets(_)
LongBullets(r) ==
  \/ r = <<>>
  \/ /\ Len(r) >= 4
     /\ r[1] = NL /\ r[2] = DASH
     /\ LET j    == IndexFrom(r, 3, {NL})
            end  == IF j = 0 THEN Len(r) ELSE j - 1
            body == SubSeq(r, 3, end)
        IN /\ body # <<>>
           /\ body[Len(body)] = DOT
           /\ StrLen(body) - 1 > MIN_SENTENCE
           /\ LongBullets(Drop(r, end))

\* C17: plain-text fallback.  Its text is the title header, a blank line,
\* and then either one bullet per sentence of more than ten characters, a
\* full stop appended to each, or the extraction-failed marker; it is
\* never empty and never the header alone.
C17_PlainTextShape ==
  (Returned /\ tier = "plain_text") =>
    LET text == result.text
        head == <<LBR, result.title, RBR, NL, NL>>
        rest == Drop(text, Len(head))
    IN /\ text # <<>>
       /\ text # <<LBR, result.title, RBR>>
       /\ IsPrefix(head, text)
       /\ \/ rest = <<DASH, EXTRACT_FAILED>>
          \/ rest # <<>> /\ LongBullets(rest)
       /\ (rest = <<DASH, EXTRACT_FAILED>>
            <=> Meaningful(SplitSentences(PlainOf(xml_string), 1)) = <<>>)
       /\ TitleParts(ArticleTitles(xml_string)) = <<>>
       /\ ContentParts(ParagraphContents(xml_string)) = <<>>

\* C17 witness: a string with a tag and one long sentence, from which the
\* salvage recovered nothing, came back as one bullet.
C17_Witness ==
  /\ Returned /\ ~faulted /\ tier = "plain_text"
  /\ TokensOf(input.str) \cap TagTokens # {}
  /\ Count(result.text, WORD) = 1
  /\ Count(result.text, EXTRACT_FAILED) = 0

\* The items of 1..n whose check ended with REGISTERED, in order.
RECURSIVE RegisteredUpTo(_)
RegisteredUpTo(n) ==
  IF n = 0 THEN <<>>
  ELSE RegisteredUpTo(n - 1) \o (IF outcome[n] = "REGISTERED" THEN <<n>> ELSE <<>>)

\* A check that failed gave a result for its own item and for no other.
FailureIsolated ==
  /\ f_pc # "aborted"
  /\ (f_pc = "await" =>
        \A k \in 1..Len(tasks) :
          LET o == outcome[tasks[k]]
          IN /\ (o \in Failures => results[k] = [is_valid |-> FALSE, status |-> "ERROR"])
             /\ (o = "REGISTERED" => results[k] = [is_valid |-> TRUE, status |-> "REGISTERED"])
             /\ (o = "" <=> results[k] = Pending))
  /\ (f_pc \in {"loop", "gather", "return", "done"} =>
        valid_data = RegisteredUpTo(idx - Len(tasks)))
  /\ (f_pc = "done" =>
        /\ idx = Len(data)
        /\ \A i \in 1..Len(data) : outcome[i] # ""
        /\ valid_data = RegisteredUpTo(Len(data)))

\* C12: a check that times out or fails in the network gives a
\* non-registration result for its item alone and never aborts
\* filter_data_async: the results of the other checks of the batch are kept,
\* the later batches are processed, and the call returns the registered
\* items of all the batches.
C12_FailureNeverAborts == []FailureIsolated /\ <>(f_pc = "done")

\* C12 witness: a timeout in the first batch and a network error in the
\* second, each next to a registered item; both registered items returned.
C12_Witness ==
  /\ f_pc = "done"
  /\ batch_size = 2
  /\ outcome = <<"TIMEOUT", "REGISTERED", "REGISTERED", "NETWORK">>
  /\ valid_data = <<2, 3>>

\* C13: bounded batches.  Never more than batch_size requests are in
\* flight; the batches are runs of batch_size consecutive items (the last
\* one may be shorter); while an item is being checked every item of the
\* earlier batches has been checked and no later item has begun; no item is
\* checked twice, and at the return every item has been checked once.
C13_BoundedBatches ==
  f_pc # "idle" =>
    LET first == idx - Len(tasks)
    IN /\ Cardinality(running) <= batch_size
       /\ Len(tasks) <= batch_size
       /\ \A k \in 1..Len(tasks) : tasks[k] = first + k
       /\ (tasks # <<>> => first % batch_size = 0)
       /\ (f_pc = "await" => Len(tasks) = batch_size \/ idx = Len(data))
       /\ (f_pc = "await" => running \subseteq begun /\ begun \subseteq 1..Len(tasks))
       /\ \A i \in 1..Len(data) :
            /\ calls[i] <= 1
            /\ (i <= first => calls[i] = 1 /\ outcome[i] # "")
            /\ (i > idx => calls[i] = 0 /\ outcome[i] = "")
            /\ (f_pc \in {"loop", "gather"} /\ i > first => calls[i] = 0)
       /\ (f_pc \in {"return", "done"} =>
            first = Len(data) /\ \A i \in 1..Len(data) : calls[i] = 1)

\* C13 witness: the second batch of two is in flight, the first is done,
\* the fifth item has not begun.
C13_Witness ==
  /\ f_pc = "await"
  /\ batch_size = 2
  /\ idx = 4
  /\ Cardinality(running) = 2
  /\ outcome[1] # "" /\ outcome[2] # ""

\* The items of a data_list that have an ITEM_SEQ written as the string cs.
WithSeq(list, cs) ==
  {i \in 1..Len(list) :
     "ITEM_SEQ" \in DOMAIN list[i] /\ Str(list[i]["ITEM_SEQ"]) = cs}

\* The first of them, and the place in the returned list of the record
\* that has this ITEM_SEQ.
FirstWithSeq(list, cs) ==
  CHOOSE i \in WithSeq(list, cs) : \A j \in WithSeq(list, cs) : i <= j
KeptFrom(k) == FirstWithSeq(data_list, processed.list[k]["ITEM_SEQ"].chars)

\* C20: the records validate_and_preprocess_data returns have ITEM_SEQ
\* values that are non-empty strings and pairwise distinct after the
\* conversion to str (1 and "1" collide); each returned record is made of
\* the first record of the input that has its ITEM_SEQ, every ITEM_SEQ of
\* the input that is not empty has its record, and the returned records
\* stand in the order of the input.
C20_ValidatedRecords ==
  m_pc = "validated" =>
    LET out == processed.list
    IN  /\ \A k \in 1..Len(out) :
             /\ out[k]["ITEM_SEQ"].type = "str"
             /\ out[k]["ITEM_SEQ"].chars # <<>>
             /\ WithSeq(data_list, out[k]["ITEM_SEQ"].chars) # {}
             /\ out[k]["ITEM_NAME"] =
                  PyStr(Strip(Get(data_list[KeptFrom(k)], "ITEM_NAME",
                                  PyStr(<<>>)).chars))
        /\ \A k, l \in 1..Len(out) :
             k < l => /\ out[k]["ITEM_SEQ"] # out[l]["ITEM_SEQ"]
                      /\ KeptFrom(k) < KeptFrom(l)
        /\ \A i \in 1..Len(data_list) :
             ("ITEM_SEQ" \in DOMAIN data_list[i]
                /\ Truthy(data_list[i]["ITEM_SEQ"]))
             => \E k \in 1..Len(out) :
                  out[k]["ITEM_SEQ"].chars = Str(data_list[i]["ITEM_SEQ"])

\* C20 witness: of the records 12, 1 (named A), "1" (named B) the first two
\* are returned, in this order, with "12" and "1" for ITEM_SEQ.
C20_Witness ==
  /\ m_pc = "validated"
  /\ Len(data_list) = 3
  /\ DOMAIN data_list[1] = {"ITEM_SEQ"}
  /\ data_list[1]["ITEM_SEQ"] = PyInt(12)
  /\ Get(data_list[2], "ITEM_SEQ", PyNone) = PyInt(1)
  /\ Get(data_list[2], "ITEM_NAME", PyNone) = PyStr(<<"A">>)
  /\ Get(data_list[3], "ITEM_SEQ", PyNone) = PyStr(<<"1">>)
  /\ Get(data_list[3], "ITEM_NAME", PyNone) = PyStr(<<SP, "B">>)
  /\ Len(processed.list) = 2
  /\ processed.list[1]["ITEM_SEQ"] = PyStr(<<"1", "2">>)
  /\ processed.list[1]["ITEM_NAME"] = PyStr(<<>>)
  /\ processed.list[2]["ITEM_SEQ"] = PyStr(<<"1">>)
  /\ processed.list[2]["ITEM_NAME"] = PyStr(<<"A">>)
  /\ DOMAIN processed.list[2] = {"ITEM_SEQ", "ITEM_NAME", "ENTP_NAME", "CHART"}

\* The ITEM_SEQ values of a list, whether they are pairwise distinct, how
\* many records of a list have a value, and the pills that have an approval.
SeqsOf(list)     == {list[i]["ITEM_SEQ"] : i \in 1..Len(list)}
UniqueSeq(list)  ==
  \A i, j \in 1..Len(list) : i < j => list[i]["ITEM_SEQ"] # list[j]["ITEM_SEQ"]
Having(list, k)  == Cardinality({i \in 1..Len(list) : list[i]["ITEM_SEQ"] = k})
MatchedPills     ==
  SelectSeq(pill_data, LAMBDA p : p["ITEM_SEQ"] \in SeqsOf(approval_data))
Merged           == m_pc \in {"merged", "analyzed"}

\* C18 as stated: in every merged record, every field that both the
\* approval and the pill have holds the approval's value whenever that
\* value is not empty.
C18_ApprovalPriority ==
  (Merged /\ UniqueSeq(approval_data)) =>
    \A j \in 1..Len(merge_result.merged) :
      LET pill     == MatchedPills[j]
          approval == CHOOSE a \in {approval_data[i] : i \in 1..Len(approval_data)} :
                        a["ITEM_SEQ"] = pill["ITEM_SEQ"]
      IN  \A f \in DOMAIN approval \cap DOMAIN pill :
            Truthy(approval[f]) => merge_result.merged[j][f] = approval[f]

\* C19: given lists whose ITEM_SEQ values are pairwise distinct, every pill
\* is in exactly one of merged and unmatchedPills, in merged iff an approval
\* has its ITEM_SEQ; an approval is in unmatchedApprovals iff no pill has
\* its ITEM_SEQ; merged and unmatchedPills count the pills, merged and
\* unmatchedApprovals count the approvals, and analyze_results reports
\* these counts and their sum.
C19_MergePartitions ==
  (Merged /\ UniqueSeq(approval_data) /\ UniqueSeq(pill_data)) =>
    LET r == merge_result
    IN  /\ \A k \in SeqsOf(pill_data) :
             /\ Having(r.merged, k) + Having(r.unmatchedPills, k) = 1
             /\ Having(r.merged, k) = 1 <=> k \in SeqsOf(approval_data)
        /\ \A k \in SeqsOf(approval_data) :
             /\ Having(r.unmatchedApprovals, k) = 1 <=> k \notin SeqsOf(pill_data)
             /\ Having(r.unmatchedApprovals, k) <= 1
        /\ Len(r.merged) + Len(r.unmatchedPills) = Len(pill_data)
        /\ Len(r.merged) + Len(r.unmatchedApprovals) = Len(approval_data)
        /\ m_pc = "analyzed" =>
             /\ analysis.totalMerged = Len(r.merged)
             /\ analysis.totalUnmatchedPills = Len(r.unmatchedPills)
             /\ analysis.totalUnmatchedApprovals = Len(r.unmatchedApprovals)
             /\ analysis.totalItems =
                  Len(r.merged) + Len(r.unmatchedPills) + Len(r.unmatchedApprovals)

\* C19 witness: approvals 1 and 2 and pills 2 and 3 gave one merged record,
\* one unmatched pill and one unmatched approval, three items in all.
C19_Witness ==
  /\ m_pc = "analyzed"
  /\ Len(approval_data) = 2 /\ Len(pill_data) = 2
  /\ approval_data[1]["ITEM_SEQ"] = PyStr(<<"1">>)
  /\ approval_data[2]["ITEM_SEQ"] = PyStr(<<"2">>)
  /\ pill_data[1]["ITEM_SEQ"] = PyStr(<<"2">>)
  /\ pill_data[2]["ITEM_SEQ"] = PyStr(<<"3">>)
  /\ Len(merge_result.merged) = 1
  /\ merge_result.merged[1]["ITEM_SEQ"] = PyStr(<<"2">>)
  /\ merge_result.merged[1]["_source"] = PyStr(<<"both">>)
  /\ Len(merge_result.unmatchedPills) = 1
  /\ merge_result.unmatchedPills[1]["ITEM_SEQ"] = PyStr(<<"3">>)
  /\ merge_result.unmatchedPills[1]["_source"] = PyStr(<<"pill_only">>)
  /\ Len(merge_result.unmatchedApprovals) = 1
  /\ merge_result.unmatchedApprovals[1]["ITEM_SEQ"] = PyStr(<<"1">>)
  /\ merge_result.unmatchedApprovals[1]["_source"] = PyStr(<<"approval_only">>)
  /\ analysis.totalItems = 3
  /\ analysis.matchRate = 3333
  /\ analysis.actionNeeded = "INPUT_NEEDED"

\* An item the collection is to keep: not cancelled, and named without
\* the export mark.  The records of total_data that have an ITEM_SEQ.
Wanted(item) ==
  /\ ~Truthy(item["CANCEL_DATE"])
  /\ item["ITEM_NAME"].type = "str"
  /\ \A j \in 1..Len(item["ITEM_NAME"].chars) : item["ITEM_NAME"].chars[j] # EXPORT
Collected(q) == \E i \in 1..Len(total_data) : total_data[i]["ITEM_SEQ"] = q

\* C21: at every moment, and so in the list returned, total_data holds no
\* record with a CANCEL_DATE, no record whose ITEM_NAME has the export
\* mark, and no two records with the same ITEM_SEQ.
C21_OnlyWantedOnce ==
  \A i \in 1..Len(total_data) :
    /\ Wanted(total_data[i])
    /\ \A j \in 1..Len(total_data) :
         i # j => total_data[i]["ITEM_SEQ"] # total_data[j]["ITEM_SEQ"]

\* C21 witness: a call has returned after a failed attempt and a second
\* page; it met a cancelled item, an export item and an item whose
\* ITEM_SEQ it had collected before, and returned records.
C21_Witness ==
  /\ c_pc = "done"
  /\ failed
  /\ page_no = 2
  /\ filtered_canceled_count > 0
  /\ filtered_export_count > 0
  /\ Len(total_data) > 0
  /\ \E i, j \in 1..Len(feed) :
       i < j /\ feed[i] = feed[j] /\ Wanted(feed[i]) /\ Collected(feed[i]["ITEM_SEQ"])

\* C22 as stated: when an attempt begins and when the function has
\* returned, every ITEM_SEQ of seen_item_sequences is the ITEM_SEQ of a
\* record of total_data, so that no item is skipped as seen and lost.
C22_SeenAreCollected ==
  c_pc \in {"attempt", "done"} =>
    \A q \in seen_item_sequences : Collected(q)

\* C23 as stated: when no attempt failed, the list returned has a record
\* for every ITEM_SEQ of a wanted item on the pages 1 to
\* ceil(totalCount / page_size); a page of cancelled or export items only
\* does not end the collection.
C23_CollectsAll ==
  (c_pc = "done" /\ ~failed) =>
    \A i \in 1..Len(feed) :
      (i <= EstimatedPages(total_count) * PageSize /\ Wanted(feed[i]))
        => Collected(feed[i]["ITEM_SEQ"])

\* A step of the collection: page_no moves by one, and only after an
\* attempt that succeeded; a failed attempt leaves total_data as it is;
\* after max_retries failures there is no further request, and page_no and
\* total_data stay.
RetryStep ==
  /\ page_no' # page_no => (page_no' = page_no + 1 /\ success)
  /\ retries' = retries + 1 => total_data' = total_data
  /\ retries = max_retries =>
       /\ requests' = requests
       /\ page_no' = page_no
       /\ total_data' = total_data
       /\ c_pc' = "done"

\* C24: bounded retry.  At most max_retries requests are issued for a
\* page; after the third failed attempt on a page the collection stops
\* and returns what total_data holds; page_no advances only after a
\* successful attempt; and every call returns.
C24_BoundedRetry ==
  /\ [](requests <= max_retries)
  /\ [](retries = max_retries => (c_pc \in {"after_loop", "done"} /\ ~success))
  /\ [][RetryStep]_vars
  /\ <>(c_pc = "done")

\* C24 witness: the first page was collected, three requests for the
\* second page failed, and the call returned the records of the first.
C24_Witness ==
  /\ c_pc = "done"
  /\ page_no = 2
  /\ retries = max_retries
  /\ requests = max_retries
  /\ ~success
  /\ Len(total_data) = PageSize


====
